---- MODULE Spec2Model ----
(***************************************************************************)
(* Model of the deterministic core of the audio violence-detection         *)
(* backend: the chunker (utils/chunker.py), score fusion                   *)
(* (core/score_fusion.py), the temporal analyzer                           *)
(* (core/temporal_analyzer.py) and the decision engine                     *)
(* (core/decision_engine.py).                                              *)
(*                                                                         *)
(* Numbers.  A score is an integer number of 1e-5 units (One = 1.0), so    *)
(* that round(x, 4) and the ":.2f" format are real conversions.  A fusion  *)
(* weight is an integer number of tenths.  Arithmetic is exact: where the  *)
(* Python holds binary floats, a comparison that is an exact tie in        *)
(* decimal may fall either way in the code; the input sets avoid resting   *)
(* a verdict on such a tie.                                                *)
(***************************************************************************)
EXTENDS Integers, Sequences, FiniteSets, TLC

VARIABLES
    call,           \* the last call of a pure function: [fn, args, ret]
    window_size,    \* TemporalAnalyzer.window_size
    score_history,  \* TemporalAnalyzer.score_history, deque(maxlen = 3 * window_size)
    window,         \* TemporalAnalyzer.window, deque(maxlen = window_size)
    snapshot,       \* the dict returned by the last add_score / analyze
    inserted,       \* history variable: every score given to add_score since __init__ / reset
    ta_op,          \* history variable: the last method called on the analyzer
    ta_added,       \* history variable: the dict returned by the last add_score since __init__ / reset
    ck_in,          \* chunk_audio: its arguments [waveform, sr, chunk_ds, overlap_ds, min_ds]
    ck_pc,          \* chunk_audio: "idle" | "loop" | "done"
    ck_start,       \* chunk_audio: local start
    ck_id,          \* chunk_audio: local chunk_id
    chunks,         \* chunk_audio: local chunks / the returned list
    next_uuid,      \* the number of uuid4() calls made so far
    fs,             \* the temporary paths that exist: the upload file, mkdtemp directories, extracted audio
    pl_in,          \* analyze_file: its argument and what the file holds [file_path, ext, exists, ...]
    pl_pc,          \* analyze_file: "idle" | "call" | "loop" | "done" | "raised"
    pl_waveform,    \* analyze_file: local waveform
    pl_chunks,      \* analyze_file: local chunks
    pl_i,           \* analyze_file: the number of chunks the for loop has taken
    pl_chunk_results, \* analyze_file: local chunk_results
    pl_events,      \* analyze_file: local events
    pl_outcome,     \* history variable: what the models gave for the chunk processed last
    pl_ret,         \* analyze_file: the dict returned or the exception raised
    st_pc,          \* analyze_stream: "idle" | "receive" | "process" | "disconnected" | "error"
    st_buffer,      \* analyze_stream: local buffer
    st_chunk_id,    \* analyze_stream: local chunk_id
    st_sent,        \* the messages given to websocket.send_json, in order
    st_close,       \* the codes given to websocket.close, in order
    st_received,    \* history variable: the number of samples received so far
    st_sliced,      \* history variable: the chunks sliced off the buffer so far
    results_cache,  \* routes/analyze.py: _results_cache
    up_pc,          \* analyze_upload: "idle" | "analyzing" (inside analyze_file)
    up_file,        \* analyze_upload: the upload being handled [filename, file, temp_path, fs_before]
    up_session,     \* analyze_upload: local session_id (NoSession outside a session)
    up_log,         \* history variable: one record per ended upload session
    http            \* the last response of analyze_upload / get_results

taVars == <<window_size, score_history, window, snapshot, inserted, ta_op, ta_added>>
ckVars == <<ck_in, ck_pc, ck_start, ck_id, chunks>>
plVars == <<pl_in, pl_pc, pl_waveform, pl_chunks, pl_i, pl_chunk_results, pl_events, pl_outcome, pl_ret>>
stVars == <<st_pc, st_buffer, st_chunk_id, st_sent, st_close, st_received, st_sliced>>
upVars == <<results_cache, up_pc, up_file, up_session, up_log, http>>

\* the state of the service around the core: the file system, analyze_file,
\* analyze_stream, analyze_upload
svcVars == <<fs, next_uuid, plVars, stVars, upVars>>

vars == <<call, taVars, ckVars, svcVars>>

----------------------------------------------------------------------------
(* Arithmetic helpers *)

\* 1.0 in score units (1e-5)
One == 10 ^ 5

Min(a, b) == IF a <= b THEN a ELSE b
Max(a, b) == IF a >= b THEN a ELSE b

\* floor(n / d) for d > 0 and any integer n
FloorDiv(n, d) == n \div d

\* Python round(): n / d rounded to the nearest integer, ties to even (d > 0)
RoundHalfEven(n, d) ==
    LET q == FloorDiv(n, d)
        r == n - q * d
    IN  IF 2 * r < d THEN q
        ELSE IF 2 * r > d THEN q + 1
        ELSE IF q % 2 = 0 THEN q ELSE q + 1

\* round(x, 4) of a score in 1e-5 units
Round4(x) == RoundHalfEven(x, 10) * 10

\* two decimal digits, zero padded
TwoDigits(n) == IF n < 10 THEN "0" \o ToString(n) ELSE ToString(n)

\* f"{x:.2f}" of a score x >= 0 in 1e-5 units
Fmt2(x) ==
    LET cents == RoundHalfEven(x, 1000)
    IN  ToString(cents \div 100) \o "." \o TwoDigits(cents % 100)

\* dict.get(k, default)
Get(d, k, default) == IF k \in DOMAIN d THEN d[k] ELSE default

\* the empty dict
EmptyDict == << >>

\* sep.join(strs)
RECURSIVE Join(_, _)
Join(strs, sep) ==
    IF strs = << >> THEN ""
    ELSE IF Len(strs) = 1 THEN strs[1]
    ELSE strs[1] \o sep \o Join(Tail(strs), sep)

\* seq[:n]
Take(seq, n) == SubSeq(seq, 1, Min(n, Len(seq)))

\* sub in s, for strings
Contains(s, sub) ==
    \E i \in 1..(Len(s) - Len(sub) + 1) : SubSeq(s, i, i + Len(sub) - 1) = sub

UpperLetters == "ABCDEFGHIJKLMNOPQRSTUVWXYZ"
LowerLetters == "abcdefghijklmnopqrstuvwxyz"

LowerChar(c) ==
    IF \E i \in 1..26 : SubSeq(UpperLetters, i, i) = c
    THEN LET i == CHOOSE j \in 1..26 : SubSeq(UpperLetters, j, j) = c
         IN  SubSeq(LowerLetters, i, i)
    ELSE c

\* str.lower()
RECURSIVE Lower(_)
Lower(s) ==
    IF s = "" THEN ""
    ELSE LowerChar(SubSeq(s, 1, 1)) \o Lower(SubSeq(s, 2, Len(s)))

\* number of entries of seq equal to v: list.count(v)
RECURSIVE Count(_, _)
Count(seq, v) ==
    IF seq = << >> THEN 0
    ELSE (IF Head(seq) = v THEN 1 ELSE 0) + Count(Tail(seq), v)

----------------------------------------------------------------------------
(* core/decision_engine.py *)

\* e.get("class", "unknown") for each of acoustic_events[:3]
EventNames(acoustic_events) ==
    [i \in 1..Len(Take(acoustic_events, 3)) |->
        Get(acoustic_events[i], "class", "unknown")]

\* Rule 1 with the threshold met already at 0.3 (>= for >)
Rule1_AtThreshold(fused_score) == fused_score >= 30000

\* The seven rules, each with the reason string it appends.
Rule1(fused_score) == fused_score > 30000
Rule2(temporal) == Get(temporal, "trend", "None") = "spike"
Rule3(fused_score, temporal) ==
    Get(temporal, "trend", "None") = "sustained" /\ fused_score > 70000
Rule4(temporal) == Get(temporal, "trend", "None") = "rising"
Rule5(temporal) == Get(temporal, "escalation_score", 0) > 30000
\* an absent (None) and an empty list are both falsy: both are << >> here
Rule6(acoustic_events) == acoustic_events # << >>
Rule7(nlp_threatening) == nlp_threatening

Reason1(fused_score) == "Elevated violence score (" \o Fmt2(fused_score) \o ")"
Reason2 == "Sudden spike in violence indicators"
Reason3(fused_score) == "Sustained aggression (score: " \o Fmt2(fused_score) \o ")"
Reason4 == "Violence indicators are rising"
Reason5(temporal) ==
    "Escalation detected (score: " \o Fmt2(temporal["escalation_score"]) \o ")"
Reason6(acoustic_events) ==
    "Violent sounds detected: " \o Join(EventNames(acoustic_events), ", ")
Reason7 == "Threatening language detected in speech"

\* the rules as an if / elif chain: only the first matching rule gives a reason
Reasons_FirstMatchOnly(fused_score, temporal, acoustic_events, nlp_threatening) ==
    IF Rule1(fused_score) THEN <<Reason1(fused_score)>>
    ELSE IF Rule2(temporal) THEN <<Reason2>>
    ELSE IF Rule3(fused_score, temporal) THEN <<Reason3(fused_score)>>
    ELSE IF Rule4(temporal) THEN <<Reason4>>
    ELSE IF Rule5(temporal) THEN <<Reason5(temporal)>>
    ELSE IF Rule6(acoustic_events) THEN <<Reason6(acoustic_events)>>
    ELSE IF Rule7(nlp_threatening) THEN <<Reason7>>
    ELSE << >>

\* the reasons list as the function builds it, rule by rule
Reasons(fused_score, temporal, acoustic_events, nlp_threatening) ==
       (IF Rule1(fused_score) THEN <<Reason1(fused_score)>> ELSE << >>)
    \o (IF Rule2(temporal) THEN <<Reason2>> ELSE << >>)
    \o (IF Rule3(fused_score, temporal) THEN <<Reason3(fused_score)>> ELSE << >>)
    \o (IF Rule4(temporal) THEN <<Reason4>> ELSE << >>)
    \o (IF Rule5(temporal) THEN <<Reason5(temporal)>> ELSE << >>)
    \o (IF Rule6(acoustic_events) THEN <<Reason6(acoustic_events)>> ELSE << >>)
    \o (IF Rule7(nlp_threatening) THEN <<Reason7>> ELSE << >>)

determine_chunk_alert(fused_score, temporal, acoustic_events, has_speech, nlp_threatening) ==
    LET reasons == Reasons(fused_score, temporal, acoustic_events, nlp_threatening)
    IN  IF reasons # << >>
        THEN [alert |-> "Violence",
              explanation |-> Join(reasons, "; "),
              reasons |-> reasons]
        ELSE [alert |-> "Safe",
              explanation |-> "No violence indicators detected",
              reasons |-> << >>]

\* [r.get("alert", "Safe") for r in chunk_results]
Alerts(chunk_results) ==
    [i \in 1..Len(chunk_results) |-> Get(chunk_results[i], "alert", "Safe")]

\* the overall alert decided by the majority of the chunks
determine_overall_alert_Majority(chunk_results) ==
    LET alerts == Alerts(chunk_results)
        violence_count == Count(alerts, "Violence")
        safe_count == Count(alerts, "Safe")
    IN  [violence_detected |-> 2 * violence_count > Len(alerts),
         overall_alert |-> IF 2 * violence_count > Len(alerts) THEN "Violence" ELSE "Safe",
         total_chunks |-> Len(alerts),
         violence_chunks |-> violence_count,
         safe_chunks |-> safe_count]

determine_overall_alert(chunk_results) ==
    LET alerts == Alerts(chunk_results)
        violence_count == Count(alerts, "Violence")
        safe_count == Count(alerts, "Safe")
    IN  [violence_detected |-> violence_count > 0,
         overall_alert |-> IF violence_count > 0 THEN "Violence" ELSE "Safe",
         total_chunks |-> Len(alerts),
         violence_chunks |-> violence_count,
         safe_chunks |-> safe_count]

\* the keyword table of the acoustic branch
KeywordLabel(top_event) ==
    LET event_lower == Lower(top_event)
    IN  IF Contains(event_lower, "gunshot") \/ Contains(event_lower, "gun")
            THEN "gunshot"
        ELSE IF Contains(event_lower, "explosion") \/ Contains(event_lower, "boom")
            THEN "explosion"
        ELSE IF Contains(event_lower, "scream") \/ Contains(event_lower, "shout")
            THEN "screaming"
        ELSE IF Contains(event_lower, "glass") \/ Contains(event_lower, "shatter")
            THEN "glass_breaking"
        ELSE IF Contains(event_lower, "slap") \/ Contains(event_lower, "smack")
            THEN "physical_violence"
        ELSE "violent_sound"

\* acoustic_events[0].get("class", "unknown")
TopEvent(acoustic_events) == Get(acoustic_events[1], "class", "unknown")

\* the emotion branch tried before the speech branch
classify_event_type_EmotionFirst(acoustic_score, nlp_score, emotion_score, has_speech, acoustic_events) ==
    IF acoustic_events # << >> /\ acoustic_score > nlp_score
        THEN KeywordLabel(TopEvent(acoustic_events))
    ELSE IF has_speech /\ emotion_score > 60000
        THEN "aggressive_emotion"
    ELSE IF has_speech /\ nlp_score > acoustic_score
        THEN "abusive_speech"
    ELSE IF acoustic_score > 30000
        THEN "violent_sound"
    ELSE "combined"

classify_event_type(acoustic_score, nlp_score, emotion_score, has_speech, acoustic_events) ==
    IF acoustic_events # << >> /\ acoustic_score > nlp_score
        THEN KeywordLabel(TopEvent(acoustic_events))
    ELSE IF has_speech /\ nlp_score > acoustic_score
        THEN "abusive_speech"
    ELSE IF has_speech /\ emotion_score > 60000
        THEN "aggressive_emotion"
    ELSE IF acoustic_score > 30000
        THEN "violent_sound"
    ELSE "combined"

----------------------------------------------------------------------------
(* core/score_fusion.py *)

\* DEFAULT_WEIGHTS, in tenths
DEFAULT_WEIGHTS == [w_acoustic |-> 5, w_nlp |-> 3, w_emotion |-> 2]

\* weights=None
NoWeights == [none |-> TRUE]

\* if weights is None: weights = DEFAULT_WEIGHTS.copy()
WeightsUsed(weights) == IF "none" \in DOMAIN weights THEN DEFAULT_WEIGHTS ELSE weights

\* the no-speech branch diluted by the acoustic weight
FusedRaw_Diluted(acoustic_score, nlp_score, emotion_score, has_speech, weights) ==
    LET w_acoustic == Get(weights, "w_acoustic", 5)
        w_nlp == Get(weights, "w_nlp", 3)
        w_emotion == Get(weights, "w_emotion", 2)
    IN  IF has_speech
        THEN w_acoustic * acoustic_score + w_nlp * nlp_score + w_emotion * emotion_score
        ELSE w_acoustic * acoustic_score

\* fused, before the clamp, in 1e-6 units (a weight in tenths times a score in
\* 1e-5 units)
FusedRaw(acoustic_score, nlp_score, emotion_score, has_speech, weights) ==
    LET w_acoustic == Get(weights, "w_acoustic", 5)
        w_nlp == Get(weights, "w_nlp", 3)
        w_emotion == Get(weights, "w_emotion", 2)
    IN  IF has_speech
        THEN w_acoustic * acoustic_score + w_nlp * nlp_score + w_emotion * emotion_score
        ELSE 10 * acoustic_score

\* the clamp without its upper limit
Clamp01_NoUpper(fused) == Max(0, fused)

\* max(0.0, min(1.0, fused)), in 1e-6 units
Clamp01(fused) == Max(0, Min(10 * One, fused))

\* round(fused, 4) of a value in 1e-6 units, as a score in 1e-5 units
Round4Fused(fused) == RoundHalfEven(fused, 100) * 10

fuse_scores(acoustic_score, nlp_score, emotion_score, has_speech, weights) ==
    LET used == WeightsUsed(weights)
        fused == Clamp01(FusedRaw(acoustic_score, nlp_score, emotion_score, has_speech, used))
    IN  [fused_score |-> Round4Fused(fused),
         component_scores |->
            [acoustic |-> Round4(acoustic_score),
             nlp |-> IF has_speech THEN Round4(nlp_score) ELSE 0,
             emotion |-> IF has_speech THEN Round4(emotion_score) ELSE 0],
         fusion_mode |-> IF has_speech THEN "full" ELSE "acoustic_only",
         weights_used |-> used]

----------------------------------------------------------------------------
(* core/temporal_analyzer.py *)

\* temporal_analyzer.py: WINDOW_SIZE
WINDOW_SIZE == 5

\* a full buffer that drops the new element instead of the oldest
DequeAppend_KeepOldest(d, x, maxlen) ==
    IF maxlen = 0 THEN << >>
    ELSE IF Len(d) >= maxlen THEN d
    ELSE Append(d, x)

\* a buffer without a bound
DequeAppend_Unbounded(d, x, maxlen) == Append(d, x)

\* deque(maxlen).append(x): the oldest element is evicted when full
DequeAppend(d, x, maxlen) ==
    IF maxlen = 0 THEN << >>
    ELSE IF Len(d) >= maxlen THEN Tail(d) \o <<x>>
    ELSE Append(d, x)

\* scores[-min(n, 5):]
Recent(scores) ==
    LET n == Len(scores)
    IN  SubSeq(scores, n - Min(n, 5) + 1, n)

\* the spike measured against the oldest score of the window instead of the
\* previous one
IsSpike_FromWindowStart(scores) ==
    LET n == Len(scores)
    IN  n >= 2 /\ scores[n] > 85000 /\ scores[1] < 40000

IsSpike(scores) ==
    LET n == Len(scores)
    IN  n >= 2 /\ scores[n] > 85000 /\ scores[n - 1] < 40000

\* the number of i with recent[i + 1] > recent[i]
Increases(recent) ==
    Cardinality({i \in 1..(Len(recent) - 1) : recent[i + 1] > recent[i]})

\* the rise measured over the last step instead of over the recent scores
IsRising_LastStep(scores) ==
    LET recent == Recent(scores)
    IN  /\ Len(scores) >= 3
        /\ Len(recent) >= 3
        /\ Increases(recent) >= Len(recent) - 2
        /\ recent[Len(recent)] - recent[Len(recent) - 1] > 15000

IsRising(scores) ==
    LET recent == Recent(scores)
    IN  /\ Len(scores) >= 3
        /\ Len(recent) >= 3
        /\ Increases(recent) >= Len(recent) - 2
        /\ recent[Len(recent)] - recent[1] > 15000

IsSustained(scores) ==
    Cardinality({i \in 1..Len(scores) : scores[i] > 50000}) >= 3

IsFalling(scores) ==
    LET recent == Recent(scores)
    IN  /\ Len(scores) >= 3
        /\ recent[Len(recent)] < recent[1] - 20000

\* the score of the reported trend alone
EscalationScore_TrendOnly(is_spike, is_rising, is_sustained) ==
    IF is_spike THEN 40000
    ELSE IF is_sustained THEN 30000
    ELSE IF is_rising THEN 30000
    ELSE 0

\* min(0.4 [spike] + 0.3 [rising] + 0.3 [sustained], 1.0)
EscalationScore(is_spike, is_rising, is_sustained) ==
    Min((IF is_spike THEN 40000 ELSE 0)
            + (IF is_rising THEN 30000 ELSE 0)
            + (IF is_sustained THEN 30000 ELSE 0),
        One)

\* the primary trend with rising tried before sustained
PrimaryTrend_RisingFirst(is_spike, is_sustained, is_rising, is_falling) ==
    IF is_spike THEN "spike"
    ELSE IF is_rising THEN "rising"
    ELSE IF is_sustained THEN "sustained"
    ELSE IF is_falling THEN "falling"
    ELSE "stable"

\* Determine Primary Trend
PrimaryTrend(is_spike, is_sustained, is_rising, is_falling) ==
    IF is_spike THEN "spike"
    ELSE IF is_sustained THEN "sustained"
    ELSE IF is_rising THEN "rising"
    ELSE IF is_falling THEN "falling"
    ELSE "stable"

\* the phrase of 'stable' given for 'falling' too
Prediction_FallingAsStable(trend) ==
    IF trend = "spike" THEN "sudden violent event detected"
    ELSE IF trend = "rising" THEN "violence likely to escalate"
    ELSE IF trend = "sustained" THEN "ongoing violent situation"
    ELSE "no escalation detected"

Prediction(trend) ==
    IF trend = "spike" THEN "sudden violent event detected"
    ELSE IF trend = "rising" THEN "violence likely to escalate"
    ELSE IF trend = "sustained" THEN "ongoing violent situation"
    ELSE IF trend = "falling" THEN "situation de-escalating"
    ELSE "no escalation detected"

\* TemporalAnalyzer.analyze() on buffers w (window) and h (score_history)
analyze(w, h) ==
    LET scores == w
        n == Len(scores)
    IN  IF n < 2
        THEN [trend |-> "stable",
              escalation_score |-> 0,
              prediction |-> "insufficient data",
              window_scores |-> scores,
              chunk_count |-> n]
        ELSE LET is_spike == IsSpike(scores)
                 is_rising == IsRising(scores)
                 is_sustained == IsSustained(scores)
                 is_falling == IsFalling(scores)
                 trend == PrimaryTrend(is_spike, is_sustained, is_rising, is_falling)
             IN  [trend |-> trend,
                  escalation_score |->
                      Round4(EscalationScore(is_spike, is_rising, is_sustained)),
                  prediction |-> Prediction(trend),
                  window_scores |-> [i \in 1..n |-> Round4(scores[i])],
                  chunk_count |-> Len(h)]

\* the buffers of a fresh analyzer after add_score of each score in turn
RECURSIVE Replay(_, _, _)
Replay(scores, w, h) ==
    IF scores = << >> THEN [window |-> w, score_history |-> h]
    ELSE Replay(Tail(scores),
                DequeAppend(w, Head(scores), WINDOW_SIZE),
                DequeAppend(h, Head(scores), 3 * WINDOW_SIZE))

\* detect_escalation(scores): the result of the last add_score, or the
\* default dict when there was none
detect_escalation(scores) ==
    IF scores = << >>
    THEN [trend |-> "stable",
          escalation_score |-> 0,
          prediction |-> "no data",
          window_scores |-> << >>,
          chunk_count |-> 0]
    ELSE LET b == Replay(scores, << >>, << >>)
         IN  analyze(b.window, b.score_history)

----------------------------------------------------------------------------
(* utils/chunker.py

   A duration is an integer number of tenths of a second, a sample rate an
   integer number of samples per second, a waveform a sequence of integers
   (0 is the zero sample).  A time in seconds is a fraction of milliseconds
   [num, den]: round(x, 3) gives den = 1.  A chunk carries, besides the
   fields of AudioChunk, the sample offset it was cut at (start): it records
   the loop's local and is read by the properties only. *)

\* int(x) of the fraction n / d, d > 0: truncation toward zero
IntTrunc(n, d) == IF n >= 0 THEN n \div d ELSE -((-n) \div d)

\* chunk_samples = int(chunk_duration * sr)
ChunkSamples(in) == IntTrunc(in.chunk_ds * in.sr, 10)

\* the stride taken as the chunk length: the overlap forgotten
StrideSamples_NoOverlap(in) == IntTrunc(in.chunk_ds * in.sr, 10)

\* stride_samples = int((chunk_duration - overlap) * sr)
StrideSamples(in) == IntTrunc((in.chunk_ds - in.overlap_ds) * in.sr, 10)

\* min_samples = int(min_chunk_duration * sr)
MinSamples(in) == IntTrunc(in.min_ds * in.sr, 10)

\* np.zeros(n)
Zeros(n) == [i \in 1..n |-> 0]

\* waveform[start:end]
Slice(waveform, start, end) == SubSeq(waveform, start + 1, end)

\* the samples returned as they are, without padding
ZeroPad_None(samples, n) == samples

\* padded = np.zeros(n); padded[:len(samples)] = samples
ZeroPad(samples, n) == samples \o Zeros(n - Len(samples))

\* x / sr seconds, not rounded
Seconds(x, sr) == [num |-> 1000 * x, den |-> sr]

\* round(x / sr, 3)
RoundedSeconds(x, sr) == [num |-> RoundHalfEven(1000 * x, sr), den |-> 1]

\* the single chunk of a waveform no longer than one chunk
ShortChunk(in) ==
    LET total_samples == Len(in.waveform)
        chunk_samples == ChunkSamples(in)
    IN  [chunk_id |-> 0,
         start_time |-> [num |-> 0, den |-> 1],
         end_time |-> Seconds(total_samples, in.sr),
         waveform |-> IF total_samples < chunk_samples
                      THEN ZeroPad(in.waveform, chunk_samples)
                      ELSE in.waveform,
         start |-> 0]

\* the chunk the loop appends at offset start: a full window, or the rest of
\* the waveform zero-padded
LoopChunk(in, chunk_id, start) ==
    LET total_samples == Len(in.waveform)
        chunk_samples == ChunkSamples(in)
        end == start + chunk_samples
    IN  [chunk_id |-> chunk_id,
         start_time |-> RoundedSeconds(start, in.sr),
         end_time |-> RoundedSeconds(Min(end, total_samples), in.sr),
         waveform |-> IF end <= total_samples
                      THEN Slice(in.waveform, start, end)
                      ELSE ZeroPad(Slice(in.waveform, start, total_samples), chunk_samples),
         start |-> start]

\* the loop of chunk_audio from offset start on, as one value
RECURSIVE ChunkLoop(_, _, _, _)
ChunkLoop(in, chunk_id, start, acc) ==
    LET total_samples == Len(in.waveform)
        end == start + ChunkSamples(in)
    IN  IF start >= total_samples THEN acc
        ELSE IF end > total_samples /\ total_samples - start < MinSamples(in) THEN acc
        ELSE ChunkLoop(in, chunk_id + 1, start + StrideSamples(in),
                       Append(acc, LoopChunk(in, chunk_id, start)))

\* chunk_audio(waveform, sr, chunk_duration, overlap, min_chunk_duration)
chunk_audio(in) ==
    IF Len(in.waveform) <= ChunkSamples(in)
    THEN <<ShortChunk(in)>>
    ELSE ChunkLoop(in, 0, 0, << >>)

----------------------------------------------------------------------------
(* models/: the five collaborators of process_chunk.

   What a model computes from a waveform is not modelled: the body of each
   try block either raises or arrives at the values drawn for it (the
   outcome o).  What the function does with them, and what it returns when
   the body raises, is. *)

\* the outcome of a try body that raises
Raises == [raises |-> TRUE]

Raised(o) == "raises" \in DOMAIN o

\* the detector failing closed: no speech assumed when the body raises
detect_speech_FailClosed(o) ==
    IF Raised(o)
    THEN [has_speech |-> FALSE, speech_probability |-> 0, speech_timestamps |-> << >>]
    ELSE [has_speech |-> o.speech_probability > 50000 \/ Len(o.speech_timestamps) > 0,
          speech_probability |-> Round4(o.speech_probability),
          speech_timestamps |-> o.speech_timestamps]

\* detect_speech(waveform, sr, threshold = 0.5); o: the speech probability
\* and the speech timestamps the model found
detect_speech(o) ==
    IF Raised(o)
    THEN [has_speech |-> TRUE, speech_probability |-> 50000, speech_timestamps |-> << >>]
    ELSE [has_speech |-> o.speech_probability > 50000 \/ Len(o.speech_timestamps) > 0,
          speech_probability |-> Round4(o.speech_probability),
          speech_timestamps |-> o.speech_timestamps]

\* the largest score of a non-empty list of events
RECURSIVE MaxScore(_)
MaxScore(evs) ==
    IF Len(evs) = 1 THEN evs[1].score ELSE Max(evs[1].score, MaxScore(Tail(evs)))

\* sorted(detected_events, key = score, reverse = True): events of equal
\* score keep their order
RECURSIVE SortedByScore(_)
SortedByScore(evs) ==
    IF evs = << >> THEN << >>
    ELSE LET top == MaxScore(evs)
             i == CHOOSE j \in 1..Len(evs) :
                      /\ evs[j].score = top
                      /\ \A k \in 1..(j - 1) : evs[k].score # top
         IN  <<evs[i]>> \o SortedByScore(SubSeq(evs, 1, i - 1) \o SubSeq(evs, i + 1, Len(evs)))

\* predict_acoustic_violence(waveform); o: the events appended in class
\* order and the largest weighted score
predict_acoustic_violence(o) ==
    IF Raised(o)
    THEN [acoustic_violence_score |-> 0, detected_events |-> << >>, mode |-> "error"]
    ELSE [acoustic_violence_score |-> Round4(Min(o.max_violence_score, One)),
          detected_events |-> SortedByScore(o.detected_events),
          mode |-> "pretrained"]

\* transcribe(waveform, sr); o: the text of the joined segments, stripped
transcribe(o) ==
    IF Raised(o)
    THEN [text |-> "", confidence |-> 0]
    ELSE [text |-> o.text, confidence |-> Round4(o.confidence)]

\* the result of classify_toxicity without a finding
NoToxicity(text) ==
    [nlp_threat_score |-> 0,
     categories |-> [threat |-> 0, severe_toxic |-> 0],
     is_threatening |-> FALSE,
     raw_text |-> text]

\* classify_toxicity(text); o: the weighted score and the two categories
\* read again after it (threat, severe_toxic)
classify_toxicity(text, o) ==
    IF text = "" THEN NoToxicity("")
    ELSE IF Raised(o) THEN NoToxicity(text)
    ELSE LET nlp_threat_score ==
                 Max(o.weighted_score, Max(o.threat, o.severe_toxic))
         IN  [nlp_threat_score |-> Round4(Min(nlp_threat_score, One)),
              categories |-> [threat |-> o.threat, severe_toxic |-> o.severe_toxic],
              is_threatening |->
                  \/ o.threat > 50000
                  \/ o.severe_toxic > 50000
                  \/ nlp_threat_score > 60000,
              raw_text |-> text]

\* detect_emotion(waveform, sr); o: the probabilities of the four labels,
\* rounded; VIOLENCE_EMOTIONS weighs angry 1.0 and sad 0.2
detect_emotion(o) ==
    IF Raised(o)
    THEN [emotions |-> [neutral |-> 0, happy |-> 0, angry |-> 0, sad |-> 0],
          dominant_emotion |-> "unknown",
          emotion_violence_score |-> 0]
    ELSE [emotions |-> o.emotions,
          dominant_emotion |-> o.dominant_emotion,
          emotion_violence_score |->
              Round4(Min(o.emotions.angry + (2 * o.emotions.sad) \div 10, One))]

----------------------------------------------------------------------------
(* core/pipeline.py: process_chunk *)

\* process_chunk(waveform, sr, fusion_weights); o: the outcomes of the five
\* collaborators on this waveform
process_chunk(waveform, sr, fusion_weights, o) ==
    LET vad_result == detect_speech(o.vad)
        has_speech == vad_result.has_speech
        acoustic_result == predict_acoustic_violence(o.acoustic)
        transcript == IF has_speech THEN transcribe(o.transcriber).text ELSE ""
        nlp_called == has_speech /\ transcript # ""
        nlp_result == classify_toxicity(transcript, o.nlp)
        emotion_result == detect_emotion(o.emotion)
        nlp_score == IF nlp_called THEN nlp_result.nlp_threat_score ELSE 0
        emotion_score == IF has_speech THEN emotion_result.emotion_violence_score ELSE 0
        fusion == fuse_scores(acoustic_result.acoustic_violence_score, nlp_score,
                              emotion_score, has_speech, fusion_weights)
    IN  [has_speech |-> has_speech,
         speech_probability |-> vad_result.speech_probability,
         acoustic_violence_score |-> acoustic_result.acoustic_violence_score,
         acoustic_events |-> acoustic_result.detected_events,
         acoustic_mode |-> acoustic_result.mode,
         transcript |-> transcript,
         nlp_threat_score |-> nlp_score,
         is_threatening |-> nlp_called /\ nlp_result.is_threatening,
         nlp_categories |-> IF nlp_called THEN nlp_result.categories ELSE EmptyDict,
         emotion_violence_score |-> emotion_score,
         emotions |-> IF has_speech THEN emotion_result.emotions ELSE EmptyDict,
         fused_score |-> fusion.fused_score,
         fusion_mode |-> fusion.fusion_mode]

\* the collaborators process_chunk calls under outcome o, and those of them
\* whose try body raised
Invoked(o) ==
    LET has_speech == detect_speech(o.vad).has_speech
        transcript == IF has_speech THEN transcribe(o.transcriber).text ELSE ""
    IN  {"vad", "acoustic"}
            \cup (IF has_speech THEN {"transcriber", "emotion"} ELSE {})
            \cup (IF has_speech /\ transcript # "" THEN {"nlp"} ELSE {})

Failed(o) == {c \in Invoked(o) : Raised(o[c])}

----------------------------------------------------------------------------
(* utils/audio_loader.py.

   The model's sample stands for a block of 8000 samples of the 16 kHz
   waveform, so that a second has 2 of them and the default chunk of 2.5 s
   has 5.  A file is what the loader finds in it: [ext, too_large, ffmpeg,
   decodes, waveform]. *)

SUPPORTED_AUDIO == {".wav", ".mp3", ".flac", ".ogg"}
SUPPORTED_VIDEO == {".mp4", ".mov", ".avi", ".mkv", ".webm"}
SUPPORTED_ALL == SUPPORTED_AUDIO \cup SUPPORTED_VIDEO

\* TARGET_SR, in blocks of 8000 samples per second
TARGET_SR == 2

\* validate_file(file_path): the exception it raises, or "none"
validate_file(file, exists) ==
    IF ~exists THEN "FileNotFoundError"
    ELSE IF file.ext \notin SUPPORTED_ALL THEN "ValueError"
    ELSE IF file.too_large THEN "ValueError"
    ELSE "none"

\* tempfile.mkdtemp(prefix = "violence_det_"): a directory that does not exist yet
MkDTemp(paths) ==
    [kind |-> "mkdtemp", n |-> Cardinality({q \in paths : q.kind = "mkdtemp"})]

\* os.path.join(output_dir, "extracted_audio.wav")
ExtractedAudio(dir) == [kind |-> "extracted_audio", n |-> dir.n]

\* extract_audio_from_video(video_path): the exception it raises, or "none",
\* and the paths it creates
extract_audio_from_video(file, paths) ==
    LET output_dir == MkDTemp(paths)
    IN  IF file.ffmpeg = "ok"
            THEN [raised |-> "none", created |-> {output_dir, ExtractedAudio(output_dir)}]
        ELSE IF file.ffmpeg = "timeout"
            THEN [raised |-> "TimeoutExpired", created |-> {output_dir}]
        ELSE [raised |-> "RuntimeError", created |-> {output_dir}]

\* np.max(np.abs(waveform)) of a non-empty waveform
RECURSIVE Peak(_)
Peak(waveform) ==
    LET a == IF Head(waveform) < 0 THEN -Head(waveform) ELSE Head(waveform)
    IN  IF Len(waveform) = 1 THEN a ELSE Max(a, Peak(Tail(waveform)))

\* waveform / peak when peak > 0, as samples in 1e-5 units
Normalized(waveform) ==
    LET peak == Peak(waveform)
    IN  IF peak > 0
        THEN [i \in 1..Len(waveform) |-> IntTrunc(waveform[i] * One, peak)]
        ELSE waveform

\* load_audio(file_path): [raised, created] or [raised |-> "none", created,
\* waveform, sr].  np.max raises ValueError on an empty waveform.
load_audio(file, exists, paths) ==
    LET v == validate_file(file, exists)
        x == IF file.ext \in SUPPORTED_VIDEO
             THEN extract_audio_from_video(file, paths)
             ELSE [raised |-> "none", created |-> {}]
    IN  IF v # "none" THEN [raised |-> v, created |-> {}]
        ELSE IF x.raised # "none" THEN x
        ELSE IF ~file.decodes THEN [raised |-> "RuntimeError", created |-> x.created]
        ELSE IF file.waveform = << >> THEN [raised |-> "ValueError", created |-> x.created]
        ELSE [raised |-> "none", created |-> x.created,
              waveform |-> Normalized(file.waveform), sr |-> TARGET_SR]

----------------------------------------------------------------------------
(* core/pipeline.py: analyze_file *)

\* the defaults of chunk_audio: 2.5 s chunks, 0.5 s overlap, 1.0 s minimum
ChunkAudioDefaults(waveform, sr) ==
    [waveform |-> waveform, sr |-> sr, chunk_ds |-> 25, overlap_ds |-> 5, min_ds |-> 10]

\* round(len(waveform) / sr, 2), in milliseconds
Duration(waveform, sr) == RoundHalfEven(100 * Len(waveform), sr) * 10

\* chunk_result after the loop body: the dict of process_chunk with the
\* timing, the temporal snapshot and the decision added
ChunkResult(r, chunk, temporal, alert_info) ==
    [has_speech |-> r.has_speech,
     speech_probability |-> r.speech_probability,
     acoustic_violence_score |-> r.acoustic_violence_score,
     acoustic_events |-> r.acoustic_events,
     acoustic_mode |-> r.acoustic_mode,
     transcript |-> r.transcript,
     nlp_threat_score |-> r.nlp_threat_score,
     is_threatening |-> r.is_threatening,
     nlp_categories |-> r.nlp_categories,
     emotion_violence_score |-> r.emotion_violence_score,
     emotions |-> r.emotions,
     fused_score |-> r.fused_score,
     fusion_mode |-> r.fusion_mode,
     chunk_id |-> chunk.chunk_id,
     start_time |-> chunk.start_time,
     end_time |-> chunk.end_time,
     temporal |-> temporal,
     alert |-> alert_info.alert,
     explanation |-> alert_info.explanation]

\* the event appended for a chunk
EventOf(r, chunk, alert_info) ==
    [start |-> chunk.start_time,
     end |-> chunk.end_time,
     type |-> classify_event_type(r.acoustic_violence_score, r.nlp_threat_score,
                                  r.emotion_violence_score, r.has_speech,
                                  r.acoustic_events),
     confidence |-> r.fused_score,
     alert |-> alert_info.alert,
     explanation |-> alert_info.explanation,
     transcript |-> r.transcript]

\* the events list with an event appended for every chunk, Safe or not
EventsAfter_EveryChunk(evs, r, chunk, alert_info) ==
    Append(evs, EventOf(r, chunk, alert_info))

\* if alert_info["alert"] != "Safe": events.append({...})
EventsAfter(evs, r, chunk, alert_info) ==
    IF alert_info.alert # "Safe"
    THEN Append(evs, EventOf(r, chunk, alert_info))
    ELSE evs

\* the entry of "chunks" in the returned dict
ChunkRecord(r) ==
    [chunk_id |-> r.chunk_id,
     start |-> r.start_time,
     end |-> r.end_time,
     fused_score |-> r.fused_score,
     acoustic_score |-> r.acoustic_violence_score,
     nlp_score |-> r.nlp_threat_score,
     emotion_score |-> r.emotion_violence_score,
     has_speech |-> r.has_speech,
     transcript |-> r.transcript,
     alert |-> r.alert,
     explanation |-> r.explanation]

\* the dict analyze_file returns (processing_time, a wall-clock reading, left out)
AnalyzeFileResult(session_id, waveform, sr, chunk_list, results, evs, final_temporal) ==
    LET overall == determine_overall_alert(
                       [i \in 1..Len(results) |-> [alert |-> results[i].alert]])
    IN  [session_id |-> session_id,
         violence_detected |-> overall.violence_detected,
         overall_alert |-> overall.overall_alert,
         duration |-> Duration(waveform, sr),
         total_chunks |-> Len(chunk_list),
         events |-> evs,
         chunks |-> [i \in 1..Len(results) |-> ChunkRecord(results[i])],
         temporal_analysis |->
             [escalation_trend |-> final_temporal.trend,
              escalation_score |-> final_temporal.escalation_score,
              prediction |-> final_temporal.prediction],
         statistics |->
             [violence_chunks |-> overall.violence_chunks,
              safe_chunks |-> overall.safe_chunks]]

----------------------------------------------------------------------------
(* Inputs of the decision engine *)

TrendLabels == {"stable", "rising", "falling", "spike", "sustained"}

\* fused scores: 0.1, 0.3, 0.3004, 0.5, 0.7149, 0.9
FusedInputs == {10000, 30000, 30040, 50000, 71490, 90000}

\* escalation scores: 0, 0.3, 0.4, 0.7
EscalationInputs == {0, 30000, 40000, 70000}

\* temporal dicts: full snapshots, dicts without escalation_score, the empty dict
TemporalInputs ==
    {[trend |-> t, escalation_score |-> e] : t \in TrendLabels, e \in EscalationInputs}
        \cup {[trend |-> t] : t \in TrendLabels}
        \cup {EmptyDict}

Event(c, s) == [class |-> c, score |-> s]

\* class names of VIOLENT_CLASSES, as YAMNet spells them
ClassNames ==
    {"Gunshot, gunfire", "Machine gun", "Explosion", "Boom", "Screaming", "Shout",
     "Glass", "Shatter", "Slap, smack", "Crying, sobbing", "Siren"}

\* acoustic_events lists: none, one event of each class, an event without a
\* class, and longer lists (sorted by score or not)
EventListInputs ==
    {<< >>}
        \cup {<<Event(c, 81230)>> : c \in ClassNames}
        \cup {<<[score |-> 5000]>>}
        \cup {<<Event("Screaming", 90000), Event("Gunshot, gunfire", 50000)>>,
              <<Event("Crying, sobbing", 10000), Event("Explosion", 90000)>>,
              <<Event("Siren", 40000), Event("Glass", 30000),
                Event("Boom", 20000), Event("Shout", 10000)>>}

\* the lists given to determine_chunk_alert
ChunkAlertEventInputs ==
    {ev \in EventListInputs :
        Len(ev) # 1 \/ Get(ev[1], "class", "unknown") \in {"Explosion", "unknown"}}

\* acoustic / nlp / emotion scores given to classify_event_type
AcousticInputs == {10000, 30000, 35000, 80000}
NlpInputs == {0, 35000, 90000}
EmotionInputs == {60000, 70000}

\* longest chunk_results list given to determine_overall_alert
MaxResults == 4

\* chunk result dicts: an alert of either kind, the labels of the three-tier
\* scheme, no alert key
ResultInputs ==
    {[alert |-> "Safe"], [alert |-> "Violence"], [alert |-> "Warning"],
     [alert |-> "Critical"], EmptyDict}

ResultLists == UNION {[1..n -> ResultInputs] : n \in 0..MaxResults}

----------------------------------------------------------------------------
(* Initial state: nothing called, a TemporalAnalyzer just constructed,
   chunk_audio not entered *)

NoCall == [fn |-> "none", done |-> FALSE]

InitCall == call = NoCall

InitTemporal ==
    /\ window_size = WINDOW_SIZE
    /\ score_history = << >>
    /\ window = << >>
    /\ snapshot = EmptyDict
    /\ inserted = << >>
    /\ ta_op = "__init__"
    /\ ta_added = EmptyDict

InitChunker ==
    /\ ck_in = EmptyDict
    /\ ck_pc = "idle"
    /\ ck_start = 0
    /\ ck_id = 0
    /\ chunks = << >>

\* no file analysed, no upload, no stream, nothing cached, no temporary file
InitFiles == fs = {} /\ next_uuid = 0

InitPipeline ==
    /\ pl_in = EmptyDict
    /\ pl_pc = "idle"
    /\ pl_waveform = << >>
    /\ pl_chunks = << >>
    /\ pl_i = 0
    /\ pl_chunk_results = << >>
    /\ pl_events = << >>
    /\ pl_outcome = EmptyDict
    /\ pl_ret = EmptyDict

InitStream ==
    /\ st_pc = "idle"
    /\ st_buffer = << >>
    /\ st_chunk_id = 0
    /\ st_sent = << >>
    /\ st_close = << >>
    /\ st_received = 0
    /\ st_sliced = << >>

\* no upload session
NoSession == -1

InitUpload ==
    /\ results_cache = EmptyDict
    /\ up_pc = "idle"
    /\ up_file = EmptyDict
    /\ up_session = NoSession
    /\ up_log = << >>
    /\ http = EmptyDict

InitService == InitFiles /\ InitPipeline /\ InitStream /\ InitUpload

Init == InitCall /\ InitTemporal /\ InitChunker /\ InitService

----------------------------------------------------------------------------
(* The decision engine's functions: the initial state draws the call and its
   arguments, the action makes the call *)

ChunkAlertCalls ==
    {[fn |-> "determine_chunk_alert", done |-> FALSE,
      args |-> [fused_score |-> f, temporal |-> t, acoustic_events |-> ev,
                has_speech |-> hs, nlp_threatening |-> th]] :
        f \in FusedInputs, t \in TemporalInputs, ev \in ChunkAlertEventInputs,
        hs \in BOOLEAN, th \in BOOLEAN}

OverallAlertCalls ==
    {[fn |-> "determine_overall_alert", done |-> FALSE,
      args |-> [chunk_results |-> rs]] : rs \in ResultLists}

EventTypeCalls ==
    {[fn |-> "classify_event_type", done |-> FALSE,
      args |-> [acoustic_score |-> a, nlp_score |-> n, emotion_score |-> e,
                has_speech |-> hs, acoustic_events |-> ev]] :
        a \in AcousticInputs, n \in NlpInputs, e \in EmotionInputs,
        hs \in BOOLEAN, ev \in EventListInputs}

\* the call returns: its result is recorded with its arguments
Return(ret) == call' = [fn |-> call.fn, done |-> TRUE, args |-> call.args, ret |-> ret]

Called(fn) == call.fn = fn /\ call.done

CallDetermineChunkAlert ==
    /\ call.fn = "determine_chunk_alert" /\ ~call.done
    /\ Return(determine_chunk_alert(call.args.fused_score, call.args.temporal,
                                    call.args.acoustic_events, call.args.has_speech,
                                    call.args.nlp_threatening))
    /\ UNCHANGED <<taVars, ckVars, svcVars>>

CallDetermineOverallAlert ==
    /\ call.fn = "determine_overall_alert" /\ ~call.done
    /\ Return(determine_overall_alert(call.args.chunk_results))
    /\ UNCHANGED <<taVars, ckVars, svcVars>>

CallClassifyEventType ==
    /\ call.fn = "classify_event_type" /\ ~call.done
    /\ Return(classify_event_type(call.args.acoustic_score, call.args.nlp_score,
                                  call.args.emotion_score, call.args.has_speech,
                                  call.args.acoustic_events))
    /\ UNCHANGED <<taVars, ckVars, svcVars>>

InitDecision ==
    /\ call \in ChunkAlertCalls \cup OverallAlertCalls \cup EventTypeCalls
    /\ InitTemporal
    /\ InitChunker
    /\ InitService

NextDecision ==
    \/ CallDetermineChunkAlert
    \/ CallDetermineOverallAlert
    \/ CallClassifyEventType

SpecDecision == InitDecision /\ [][NextDecision]_vars

----------------------------------------------------------------------------
(* Score fusion: inputs, out-of-range ones included *)

\* acoustic scores: -0.2, 0, 0.12346, 0.7, 1.5
FuseAcousticInputs == {-20000, 0, 12346, 70000, 150000}
\* nlp scores: -0.5, 0, 0.8, 1.2
FuseNlpInputs == {-50000, 0, 80000, 120000}
\* emotion scores: 0, 0.6, 0.99994
FuseEmotionInputs == {0, 60000, 99994}

\* weight maps: none given, maps that do not sum to 1, a negative weight,
\* missing keys, the empty map
WeightInputs ==
    {NoWeights,
     [w_acoustic |-> 10, w_nlp |-> 10, w_emotion |-> 10],
     [w_acoustic |-> 1, w_nlp |-> 1, w_emotion |-> 1],
     [w_acoustic |-> -5, w_nlp |-> 3, w_emotion |-> 2],
     [w_acoustic |-> 20],
     [w_nlp |-> 0, w_emotion |-> 0],
     EmptyDict}

FuseCalls ==
    {[fn |-> "fuse_scores", done |-> FALSE,
      args |-> [acoustic_score |-> a, nlp_score |-> n, emotion_score |-> e,
                has_speech |-> hs, weights |-> w]] :
        a \in FuseAcousticInputs, n \in FuseNlpInputs, e \in FuseEmotionInputs,
        hs \in BOOLEAN, w \in WeightInputs}

CallFuseScores ==
    /\ call.fn = "fuse_scores" /\ ~call.done
    /\ Return(fuse_scores(call.args.acoustic_score, call.args.nlp_score,
                          call.args.emotion_score, call.args.has_speech,
                          call.args.weights))
    /\ UNCHANGED <<taVars, ckVars, svcVars>>

InitFusion ==
    /\ call \in FuseCalls
    /\ InitTemporal
    /\ InitChunker
    /\ InitService

NextFusion == CallFuseScores

SpecFusion == InitFusion /\ [][NextFusion]_vars

----------------------------------------------------------------------------
(* The temporal analyzer: one instance, driven by add_score, analyze, reset *)

\* scores given to add_score: 0.1, 0.4, 0.5, 0.72, 0.9
ScoreInputs == {10000, 40000, 50000, 72000, 90000}

\* add_score calls on one analyzer between resets
MaxAdds == 6

\* TemporalAnalyzer.add_score(score): what it does to the analyzer
add_score(score) ==
    /\ score_history' = DequeAppend(score_history, score, 3 * window_size)
    /\ window' = DequeAppend(window, score, window_size)
    /\ snapshot' = analyze(window', score_history')
    /\ inserted' = Append(inserted, score)
    /\ ta_op' = "add_score"
    /\ ta_added' = snapshot'
    /\ UNCHANGED window_size

AddScore ==
    \E score \in ScoreInputs :
        /\ Len(inserted) < MaxAdds
        /\ add_score(score)
        /\ UNCHANGED <<call, ckVars, svcVars>>

\* analyze() that consumes the oldest score of the window as it reads
Analyze_Consuming ==
    /\ snapshot' = analyze(window, score_history)
    /\ ta_op' = "analyze"
    /\ window' = IF window = << >> THEN window ELSE Tail(window)
    /\ UNCHANGED <<window_size, score_history, inserted, ta_added, call, ckVars, svcVars>>

\* TemporalAnalyzer.analyze(), called from outside
Analyze ==
    /\ snapshot' = analyze(window, score_history)
    /\ ta_op' = "analyze"
    /\ UNCHANGED <<window_size, score_history, window, inserted, ta_added, call, ckVars, svcVars>>

\* TemporalAnalyzer.reset(): returns nothing
Reset ==
    /\ score_history' = << >>
    /\ window' = << >>
    /\ snapshot' = EmptyDict
    /\ inserted' = << >>
    /\ ta_op' = "reset"
    /\ ta_added' = EmptyDict
    /\ UNCHANGED <<window_size, call, ckVars, svcVars>>

NextTemporal == AddScore \/ Analyze \/ Reset

SpecTemporal == Init /\ [][NextTemporal]_vars

\* A long run of one analyzer, without reset, over two scores: 0.1 and 0.9
LongScoreInputs == {10000, 90000}

\* add_score calls of the long run
MaxLongAdds == 16

AddScoreLong ==
    \E score \in LongScoreInputs :
        /\ Len(inserted) < MaxLongAdds
        /\ add_score(score)
        /\ UNCHANGED <<call, ckVars, svcVars>>

NextTemporalLong == AddScoreLong \/ Analyze

SpecTemporalLong == Init /\ [][NextTemporalLong]_vars

\* A run that ends on a rising window: 0.1, 0.2, 0.3, 0.35, 0.5, 0.65, 0.8, 0.9
RisingScoreInputs == {10000, 20000, 30000, 35000, 50000, 65000, 80000, 90000}

\* add_score calls of the rising run
MaxRisingAdds == 6

\* the scores that the window will have evicted are 0.1 or 0.9; the last
\* window_size scores are drawn from all of RisingScoreInputs
AddScoreRising ==
    \E score \in RisingScoreInputs :
        /\ Len(inserted) < MaxRisingAdds
        /\ Len(inserted) < MaxRisingAdds - window_size => score \in LongScoreInputs
        /\ add_score(score)
        /\ UNCHANGED <<call, ckVars, svcVars>>

NextTemporalRising == AddScoreRising

SpecTemporalRising == Init /\ [][NextTemporalRising]_vars

\* Analyzers of other window sizes, TemporalAnalyzer(window_size), driven
\* past the capacity of the history buffer
SizeInputs == {0, 1, 2, 3}

\* scores given to add_score: 0.1 and 0.9
SizedScoreInputs == {10000, 90000}

\* add_score calls between resets
MaxSizedAdds == 10

AddScoreSized ==
    \E score \in SizedScoreInputs :
        /\ Len(inserted) < MaxSizedAdds
        /\ add_score(score)
        /\ UNCHANGED <<call, ckVars, svcVars>>

InitTemporalSized ==
    /\ InitCall
    /\ window_size \in SizeInputs
    /\ score_history = << >>
    /\ window = << >>
    /\ snapshot = EmptyDict
    /\ inserted = << >>
    /\ ta_op = "__init__"
    /\ ta_added = EmptyDict
    /\ InitChunker
    /\ InitService

NextTemporalSized == AddScoreSized \/ Analyze \/ Reset

SpecTemporalSized == InitTemporalSized /\ [][NextTemporalSized]_vars

\* detect_escalation, and beside it one analyzer driven by add_score and
\* analyze: lists and runs of up to MaxReplay scores
MaxReplay == 4

ReplayInputs == UNION {[1..n -> ScoreInputs] : n \in 0..MaxReplay}

EscalationCalls ==
    {[fn |-> "detect_escalation", done |-> FALSE, args |-> [scores |-> sc]] :
        sc \in ReplayInputs}

CallDetectEscalation ==
    /\ call.fn = "detect_escalation" /\ ~call.done
    /\ Return(detect_escalation(call.args.scores))
    /\ UNCHANGED <<taVars, ckVars, svcVars>>

AddScoreReplay ==
    \E score \in ScoreInputs :
        /\ Len(inserted) < MaxReplay
        /\ add_score(score)
        /\ UNCHANGED <<call, ckVars, svcVars>>

InitEscalation ==
    /\ call \in EscalationCalls \cup {NoCall}
    /\ InitTemporal
    /\ InitChunker
    /\ InitService

\* either the function is called once, or an analyzer is driven
NextEscalation ==
    \/ CallDetectEscalation
    \/ call = NoCall /\ AddScoreReplay
    \/ call = NoCall /\ Analyze

SpecEscalation == InitEscalation /\ [][NextEscalation]_vars

----------------------------------------------------------------------------
(* chunk_audio: the initial state draws the arguments, the actions run the
   function: the short case at once, the loop one iteration at a time *)

\* longest waveform, in samples
MaxSamples == 14

\* waveforms of every length: a ramp (sample i is i) and silence (all zero)
WaveformInputs ==
    {[i \in 1..n |-> i] : n \in 0..MaxSamples}
        \cup {[i \in 1..n |-> 0] : n \in 0..MaxSamples}

\* (sr, chunk_duration, overlap, min_chunk_duration), durations in tenths:
\* the defaults 2.5 / 0.5 / 1.0 at 2 samples per second; an overlap of 2.0;
\* 3 samples per second, where 2.5 s is not a whole number of samples; no
\* overlap and no minimum; a chunk of 1.0 with overlap 0.5
ParameterInputs ==
    {[sr |-> 2, chunk_ds |-> 25, overlap_ds |-> 5, min_ds |-> 10],
     [sr |-> 2, chunk_ds |-> 25, overlap_ds |-> 20, min_ds |-> 10],
     [sr |-> 3, chunk_ds |-> 25, overlap_ds |-> 5, min_ds |-> 10],
     [sr |-> 2, chunk_ds |-> 15, overlap_ds |-> 0, min_ds |-> 0],
     [sr |-> 2, chunk_ds |-> 10, overlap_ds |-> 5, min_ds |-> 10]}

ChunkCalls ==
    {[waveform |-> w, sr |-> p.sr, chunk_ds |-> p.chunk_ds,
      overlap_ds |-> p.overlap_ds, min_ds |-> p.min_ds] :
        w \in WaveformInputs, p \in ParameterInputs}

InitChunkAudio ==
    /\ InitCall
    /\ InitTemporal
    /\ ck_in \in ChunkCalls
    /\ ck_pc = "call"
    /\ ck_start = 0
    /\ ck_id = 0
    /\ chunks = << >>
    /\ InitService

\* the short case returning no chunk for an empty waveform
ChunkShort_NothingForEmpty ==
    /\ ck_pc = "call"
    /\ Len(ck_in.waveform) <= ChunkSamples(ck_in)
    /\ chunks' = IF ck_in.waveform = << >> THEN << >> ELSE <<ShortChunk(ck_in)>>
    /\ ck_pc' = "done"
    /\ UNCHANGED <<ck_in, ck_start, ck_id, call, taVars, svcVars>>

\* total_samples <= chunk_samples: return the one chunk
ChunkShort ==
    /\ ck_pc = "call"
    /\ Len(ck_in.waveform) <= ChunkSamples(ck_in)
    /\ chunks' = <<ShortChunk(ck_in)>>
    /\ ck_pc' = "done"
    /\ UNCHANGED <<ck_in, ck_start, ck_id, call, taVars, svcVars>>

\* chunks = []; chunk_id = 0; start = 0
ChunkEnterLoop ==
    /\ ck_pc = "call"
    /\ Len(ck_in.waveform) > ChunkSamples(ck_in)
    /\ chunks' = << >>
    /\ ck_id' = 0
    /\ ck_start' = 0
    /\ ck_pc' = "loop"
    /\ UNCHANGED <<ck_in, call, taVars, svcVars>>

\* one iteration that appends a chunk
AppendChunk ==
    /\ chunks' = Append(chunks, LoopChunk(ck_in, ck_id, ck_start))
    /\ ck_id' = ck_id + 1
    /\ ck_start' = ck_start + StrideSamples(ck_in)
    /\ UNCHANGED <<ck_in, ck_pc, call, taVars, svcVars>>

\* while start < total_samples, end <= total_samples: a full chunk
LoopFull ==
    /\ ck_pc = "loop"
    /\ ck_start < Len(ck_in.waveform)
    /\ ck_start + ChunkSamples(ck_in) <= Len(ck_in.waveform)
    /\ AppendChunk

\* end > total_samples and remaining >= min_samples: a zero-padded chunk
LoopPadded ==
    /\ ck_pc = "loop"
    /\ ck_start < Len(ck_in.waveform)
    /\ ck_start + ChunkSamples(ck_in) > Len(ck_in.waveform)
    /\ Len(ck_in.waveform) - ck_start >= MinSamples(ck_in)
    /\ AppendChunk

\* end > total_samples and remaining < min_samples: break
LoopBreak ==
    /\ ck_pc = "loop"
    /\ ck_start < Len(ck_in.waveform)
    /\ ck_start + ChunkSamples(ck_in) > Len(ck_in.waveform)
    /\ Len(ck_in.waveform) - ck_start < MinSamples(ck_in)
    /\ ck_pc' = "done"
    /\ UNCHANGED <<ck_in, ck_start, ck_id, chunks, call, taVars, svcVars>>

\* start >= total_samples: the loop ends
LoopExit ==
    /\ ck_pc = "loop"
    /\ ck_start >= Len(ck_in.waveform)
    /\ ck_pc' = "done"
    /\ UNCHANGED <<ck_in, ck_start, ck_id, chunks, call, taVars, svcVars>>

NextChunkAudio ==
    \/ ChunkShort
    \/ ChunkEnterLoop
    \/ LoopFull
    \/ LoopPadded
    \/ LoopBreak
    \/ LoopExit

SpecChunkAudio == InitChunkAudio /\ [][NextChunkAudio]_vars

----------------------------------------------------------------------------
(* analyze_file: the initial state draws the file and what the loader finds
   in it; the actions run the function, one chunk of the for loop at a time,
   the outcomes of the collaborators drawn chunk by chunk *)

\* longest file, in samples
MaxFileSamples == 10

\* what the body of each collaborator arrives at when it does not raise
VadSpeech ==
    [speech_probability |-> 80000, speech_timestamps |-> <<[start |-> 0, end |-> 2000]>>]
VadNoSpeech == [speech_probability |-> 0, speech_timestamps |-> << >>]
AcousticLoud ==
    [max_violence_score |-> 121845,
     detected_events |-> <<Event("Screaming", 30000), Event("Gunshot, gunfire", 81230)>>]
AcousticQuiet == [max_violence_score |-> 10000, detected_events |-> << >>]
TranscriberText == [text |-> "give me the money", confidence |-> 90000]
TranscriberSilence == [text |-> "", confidence |-> 0]
NlpThreat == [weighted_score |-> 40000, threat |-> 90000, severe_toxic |-> 10000]
EmotionAngry ==
    [emotions |-> [neutral |-> 10000, happy |-> 10000, angry |-> 70000, sad |-> 10000],
     dominant_emotion |-> "angry"]
EmotionCalm ==
    [emotions |-> [neutral |-> 80000, happy |-> 10000, angry |-> 5000, sad |-> 5000],
     dominant_emotion |-> "neutral"]

\* every pattern of failures: each collaborator raises or finds violence
FailurePatterns ==
    [vad : {Raises, VadSpeech}, acoustic : {Raises, AcousticLoud},
     transcriber : {Raises, TranscriberText}, nlp : {Raises, NlpThreat},
     emotion : {Raises, EmotionAngry}]

\* chunks without a failure and without violence, with and without speech;
\* a loud chunk without speech; a failing detector on a calm, silent chunk
CalmOutcomes ==
    {[vad |-> v, acoustic |-> a, transcriber |-> TranscriberSilence, nlp |-> NlpThreat,
      emotion |-> EmotionCalm] :
        v \in {VadNoSpeech, VadSpeech, Raises}, a \in {AcousticQuiet, AcousticLoud}}

OutcomeInputs == FailurePatterns \cup CalmOutcomes

\* a file that loads: n samples of a ramp
AudioFile(ext, n) ==
    [ext |-> ext, too_large |-> FALSE, ffmpeg |-> "ok", decodes |-> TRUE,
     waveform |-> [i \in 1..n |-> i]]

\* the files: audio of every length, a video, and the files that do not load
\* (ffmpeg failing, missing or timing out, an undecodable, an oversized and
\* an unsupported file)
FileInputs ==
    {AudioFile(".wav", n) : n \in 0..MaxFileSamples}
        \cup {AudioFile(".mp4", 7)}
        \cup {[AudioFile(".mp4", 7) EXCEPT !.ffmpeg = x] : x \in {"fails", "missing", "timeout"}}
        \cup {[AudioFile(".mov", 7) EXCEPT !.decodes = FALSE],
              [AudioFile(".mp3", 7) EXCEPT !.decodes = FALSE],
              [AudioFile(".wav", 7) EXCEPT !.too_large = TRUE],
              AudioFile(".txt", 7)}

\* the path given to analyze_file
InputPath(ext) == [kind |-> "input", ext |-> ext]

\* analyze_file(file_path, fusion_weights) calls: the file exists or not
AnalyzeFileCalls ==
    {[file_path |-> InputPath(f.ext), file |-> f, exists |-> TRUE, fusion_weights |-> NoWeights] :
        f \in FileInputs}
        \cup {[file_path |-> InputPath(".wav"), file |-> AudioFile(".wav", 7),
               exists |-> FALSE, fusion_weights |-> NoWeights],
              [file_path |-> InputPath(".wav"), file |-> AudioFile(".wav", 3),
               exists |-> TRUE, fusion_weights |-> [w_acoustic |-> 10]]}

\* an analyzer that is handed on with the scores of the session before
NewTemporalAnalyzer_KeepsScores ==
    /\ window_size' = WINDOW_SIZE
    /\ snapshot' = EmptyDict
    /\ ta_op' = "__init__"
    /\ ta_added' = EmptyDict
    /\ UNCHANGED <<score_history, window, inserted>>

\* temporal_analyzer = TemporalAnalyzer()
NewTemporalAnalyzer ==
    /\ window_size' = WINDOW_SIZE
    /\ score_history' = << >>
    /\ window' = << >>
    /\ snapshot' = EmptyDict
    /\ inserted' = << >>
    /\ ta_op' = "__init__"
    /\ ta_added' = EmptyDict

\* session_id = str(uuid.uuid4()); load_audio raises: analyze_file raises
AnalyzeFileLoadRaises ==
    LET loaded == load_audio(pl_in.file, pl_in.file_path \in fs, fs)
    IN  /\ pl_pc = "call"
        /\ loaded.raised # "none"
        /\ next_uuid' = next_uuid + 1
        /\ fs' = fs \cup loaded.created
        /\ pl_ret' = [raised |-> loaded.raised]
        /\ pl_pc' = "raised"
        /\ UNCHANGED <<pl_in, pl_waveform, pl_chunks, pl_i, pl_chunk_results,
                       pl_events, pl_outcome>>
        /\ UNCHANGED <<call, taVars, ckVars, stVars, upVars>>

\* session_id = str(uuid.uuid4()); load_audio; chunk_audio; the locals of
\* the loop
AnalyzeFileLoad ==
    LET loaded == load_audio(pl_in.file, pl_in.file_path \in fs, fs)
    IN  /\ pl_pc = "call"
        /\ loaded.raised = "none"
        /\ next_uuid' = next_uuid + 1
        /\ fs' = fs \cup loaded.created
        /\ pl_waveform' = loaded.waveform
        /\ pl_chunks' = chunk_audio(ChunkAudioDefaults(loaded.waveform, loaded.sr))
        /\ pl_i' = 0
        /\ pl_chunk_results' = << >>
        /\ pl_events' = << >>
        /\ NewTemporalAnalyzer
        /\ pl_ret' = [session_id |-> next_uuid]
        /\ pl_pc' = "loop"
        /\ UNCHANGED <<pl_in, pl_outcome>>
        /\ UNCHANGED <<call, ckVars, stVars, upVars>>

\* one iteration of: for chunk in chunks
AnalyzeFileChunk(o) ==
    LET chunk == pl_chunks[pl_i + 1]
        r == process_chunk(chunk.waveform, TARGET_SR, pl_in.fusion_weights, o)
    IN  /\ pl_pc = "loop"
        /\ pl_i < Len(pl_chunks)
        /\ add_score(r.fused_score)
        /\ LET temporal == snapshot'
               alert_info == determine_chunk_alert(r.fused_score, temporal,
                                                   r.acoustic_events, r.has_speech,
                                                   r.is_threatening)
           IN  /\ pl_events' = EventsAfter(pl_events, r, chunk, alert_info)
               /\ pl_chunk_results' =
                      Append(pl_chunk_results, ChunkResult(r, chunk, temporal, alert_info))
        /\ pl_i' = pl_i + 1
        /\ pl_outcome' = [invoked |-> Invoked(o), failed |-> Failed(o)]
        /\ UNCHANGED <<pl_in, pl_pc, pl_waveform, pl_chunks, pl_ret>>
        /\ UNCHANGED <<call, ckVars, fs, next_uuid, stVars, upVars>>

\* after the loop: determine_overall_alert, temporal_analyzer.analyze(), return
AnalyzeFileReturn ==
    /\ pl_pc = "loop"
    /\ pl_i = Len(pl_chunks)
    /\ snapshot' = analyze(window, score_history)
    /\ ta_op' = "analyze"
    /\ pl_ret' = AnalyzeFileResult(pl_ret.session_id, pl_waveform, TARGET_SR, pl_chunks,
                                   pl_chunk_results, pl_events, snapshot')
    /\ pl_pc' = "done"
    /\ UNCHANGED <<window_size, score_history, window, inserted, ta_added>>
    /\ UNCHANGED <<pl_in, pl_waveform, pl_chunks, pl_i, pl_chunk_results, pl_events,
                   pl_outcome>>
    /\ UNCHANGED <<call, ckVars, fs, next_uuid, stVars, upVars>>

InitAnalyzeFile ==
    /\ InitCall
    /\ InitTemporal
    /\ InitChunker
    /\ InitStream
    /\ InitUpload
    /\ next_uuid = 0
    /\ pl_in \in AnalyzeFileCalls
    /\ fs = IF pl_in.exists THEN {pl_in.file_path} ELSE {}
    /\ pl_pc = "call"
    /\ pl_waveform = << >>
    /\ pl_chunks = << >>
    /\ pl_i = 0
    /\ pl_chunk_results = << >>
    /\ pl_events = << >>
    /\ pl_outcome = EmptyDict
    /\ pl_ret = EmptyDict

NextAnalyzeFile ==
    \/ AnalyzeFileLoadRaises
    \/ AnalyzeFileLoad
    \/ \E o \in OutcomeInputs : AnalyzeFileChunk(o)
    \/ AnalyzeFileReturn

SpecAnalyzeFile == InitAnalyzeFile /\ [][NextAnalyzeFile]_vars

----------------------------------------------------------------------------
(* routes/analyze.py: analyze_stream *)

\* the most samples a streaming session receives
MaxStreamSamples == 16

\* chunk_samples = int(chunk_duration * sr) with chunk_duration = 2.5
chunk_samples == (25 * TARGET_SR) \div 10

\* load_audio_from_bytes(data, sr = 16000): np.frombuffer(dtype = int16)
\* raises ValueError when the bytes are not whole int16 values; the values
\* divided by 32768.0, in 1e-5 units.  sr = TARGET_SR: no resampling.
load_audio_from_bytes(data) ==
    IF data.odd THEN [raised |-> "ValueError"]
    ELSE [raised |-> "none",
          audio |-> [i \in 1..Len(data.pcm) |-> IntTrunc(data.pcm[i] * One, 32768)]]

\* the int16 value the client sends as its k-th sample
Pcm(k) == 328 * k

\* a binary frame of n samples sent after `received` samples; odd: with one
\* byte more
StreamFrame(received, n, odd) ==
    [pcm |-> [i \in 1..n |-> Pcm(received + i)], odd |-> odd]

\* the sizes of the frames: empty, shorter than a chunk, one chunk, more
\* than two chunks
StreamFrameSizes == {0, 2, 5, 11}

\* what the models give for a streamed chunk: every collaborator failing,
\* and calm or loud chunks with and without speech
StreamOutcomes ==
    {o \in FailurePatterns : \A k \in DOMAIN o : Raised(o[k])}
        \cup {o \in CalmOutcomes : ~Raised(o.vad)}

\* the exceptions of receive_bytes and send_json: the client went away, or
\* anything else (a text frame, a broken connection)
StreamExceptions == {"WebSocketDisconnect", "RuntimeError"}

\* the message sent for a chunk
StreamResponse(chunk_id, r, temporal, alert_info) ==
    [chunk_id |-> chunk_id,
     fused_score |-> r.fused_score,
     acoustic_score |-> r.acoustic_violence_score,
     nlp_score |-> r.nlp_threat_score,
     emotion_score |-> r.emotion_violence_score,
     has_speech |-> r.has_speech,
     transcript |-> r.transcript,
     alert |-> alert_info.alert,
     explanation |-> alert_info.explanation,
     event_type |-> classify_event_type(r.acoustic_violence_score, r.nlp_threat_score,
                                        r.emotion_violence_score, r.has_speech,
                                        r.acoustic_events),
     temporal |-> [trend |-> temporal.trend,
                   escalation_score |-> temporal.escalation_score,
                   prediction |-> temporal.prediction]]

\* await websocket.accept() and the locals before the try
StreamAccept ==
    /\ st_pc = "idle"
    /\ st_buffer' = << >>
    /\ st_chunk_id' = 0
    /\ NewTemporalAnalyzer
    /\ st_pc' = "receive"
    /\ UNCHANGED <<st_sent, st_close, st_received, st_sliced>>
    /\ UNCHANGED <<call, ckVars, fs, next_uuid, plVars, upVars>>

\* the handlers treating a disconnect like any other exception
StreamEnds_DisconnectIsError(exc) ==
    /\ st_pc' = IF exc = "WebSocketDisconnect" THEN "disconnected" ELSE "error"
    /\ st_close' = Append(st_close, 1011)

\* except WebSocketDisconnect: log; except Exception: close(code = 1011)
StreamEnds(exc) ==
    /\ st_pc' = IF exc = "WebSocketDisconnect" THEN "disconnected" ELSE "error"
    /\ st_close' = IF exc = "WebSocketDisconnect" THEN st_close ELSE Append(st_close, 1011)

\* the inner loop taking one chunk for a frame at most
AfterSend_IfNotWhile(buffer) == "receive"

\* while len(buffer) >= chunk_samples, tested after an iteration: the next
\* iteration, or back to receive_bytes
AfterSend(buffer) ==
    IF Len(buffer) >= chunk_samples THEN "process" ELSE "receive"

\* the inner loop entered only with more than one chunk buffered
AfterReceive_MoreThanOneChunk(buffer) ==
    IF Len(buffer) > chunk_samples THEN "process" ELSE "receive"

\* while len(buffer) >= chunk_samples, tested after a frame was appended
AfterReceive(buffer) ==
    IF Len(buffer) >= chunk_samples THEN "process" ELSE "receive"

\* data = await websocket.receive_bytes() raises
StreamReceiveRaises(exc) ==
    /\ st_pc = "receive"
    /\ StreamEnds(exc)
    /\ UNCHANGED <<st_buffer, st_chunk_id, st_sent, st_received, st_sliced>>
    /\ UNCHANGED <<call, taVars, ckVars, fs, next_uuid, plVars, upVars>>

\* a frame arrives; load_audio_from_bytes; np.concatenate
StreamReceive(n, odd) ==
    LET data == StreamFrame(st_received, n, odd)
        loaded == load_audio_from_bytes(data)
    IN  /\ st_pc = "receive"
        /\ st_received + n <= MaxStreamSamples
        /\ IF loaded.raised # "none"
           THEN /\ StreamEnds(loaded.raised)
                /\ UNCHANGED <<st_buffer, st_received>>
           ELSE /\ st_buffer' = st_buffer \o loaded.audio
                /\ st_received' = st_received + n
                /\ st_pc' = AfterReceive(st_buffer')
                /\ UNCHANGED st_close
        /\ UNCHANGED <<st_chunk_id, st_sent, st_sliced>>
        /\ UNCHANGED <<call, taVars, ckVars, fs, next_uuid, plVars, upVars>>

\* one iteration of the inner loop: slice, process_chunk, add_score, decide,
\* send_json (sent: "ok" or the exception it raises), chunk_id += 1
StreamChunk(o, sent) ==
    LET chunk_waveform == SubSeq(st_buffer, 1, chunk_samples)
        r == process_chunk(chunk_waveform, TARGET_SR, NoWeights, o)
    IN  /\ st_pc = "process"
        /\ st_buffer' = SubSeq(st_buffer, chunk_samples + 1, Len(st_buffer))
        /\ st_sliced' = Append(st_sliced, chunk_waveform)
        /\ add_score(r.fused_score)
        /\ LET temporal == snapshot'
               alert_info == determine_chunk_alert(r.fused_score, temporal,
                                                   r.acoustic_events, r.has_speech,
                                                   r.is_threatening)
               response == StreamResponse(st_chunk_id, r, temporal, alert_info)
           IN  IF sent = "ok"
               THEN /\ st_sent' = Append(st_sent, response)
                    /\ st_chunk_id' = st_chunk_id + 1
                    /\ st_pc' = AfterSend(st_buffer')
                    /\ UNCHANGED st_close
               ELSE /\ StreamEnds(sent)
                    /\ UNCHANGED <<st_sent, st_chunk_id>>
        /\ UNCHANGED st_received
        /\ UNCHANGED <<call, ckVars, fs, next_uuid, plVars, upVars>>

InitStreamSession ==
    /\ InitCall
    /\ InitTemporal
    /\ InitChunker
    /\ InitService

NextStream ==
    \/ StreamAccept
    \/ \E exc \in StreamExceptions : StreamReceiveRaises(exc)
    \/ \E n \in StreamFrameSizes, odd \in BOOLEAN : StreamReceive(n, odd)
    \/ \E o \in StreamOutcomes, sent \in {"ok"} \cup StreamExceptions : StreamChunk(o, sent)

SpecStream == InitStreamSession /\ [][NextStream]_vars

----------------------------------------------------------------------------
(* chunk_audio run to its end, and analyze_file around it: the initial state
   draws either a call of chunk_audio, with strides from one sample up and
   chunks from zero samples up, or a call of analyze_file.  chunk_audio is
   sequential code without a blocking call: a step of it that can be taken
   is taken. *)

\* parameters beside ParameterInputs: a stride longer than the chunk
\* (negative overlap), and a chunk of no samples with a stride of one
WideParameterInputs ==
    ParameterInputs
        \cup {[sr |-> 2, chunk_ds |-> 10, overlap_ds |-> -5, min_ds |-> 10],
              [sr |-> 2, chunk_ds |-> 0, overlap_ds |-> -5, min_ds |-> 0]}

WideChunkCalls ==
    {[waveform |-> w, sr |-> p.sr, chunk_ds |-> p.chunk_ds,
      overlap_ds |-> p.overlap_ds, min_ds |-> p.min_ds] :
        w \in WaveformInputs, p \in WideParameterInputs}

InitChunkedSession ==
    \/ /\ InitCall
       /\ InitTemporal
       /\ ck_in \in WideChunkCalls
       /\ ck_pc = "call"
       /\ ck_start = 0
       /\ ck_id = 0
       /\ chunks = << >>
       /\ InitService
    \/ InitAnalyzeFile

NextChunkedSession ==
    \/ ChunkShort
    \/ ChunkEnterLoop
    \/ LoopFull
    \/ LoopPadded
    \/ LoopBreak
    \/ LoopExit
    \/ AnalyzeFileLoadRaises
    \/ AnalyzeFileLoad
    \/ \E o \in StreamOutcomes : AnalyzeFileChunk(o)
    \/ AnalyzeFileReturn

SpecChunkedSession ==
    InitChunkedSession /\ [][NextChunkedSession]_vars /\ WF_vars(NextChunkAudio)

----------------------------------------------------------------------------
(* The loop of analyze_file and the loop of analyze_stream on the same
   process_chunk outcomes: the initial state draws the outcomes chunk by
   chunk; a batch session runs over a file, then a streaming session over
   frames, each with the TemporalAnalyzer it constructs *)

\* the outcomes of the collaborators for the chunks of a session, as many
\* as a streaming session can slice
LoopOutcomeInputs ==
    [1..(MaxStreamSamples \div chunk_samples) -> StreamOutcomes]

\* files of one, two and three chunks with the default weights, and one
\* chunk fused with custom weights
LoopFileCalls ==
    {c \in AnalyzeFileCalls :
        /\ c.exists
        /\ c.file \in {AudioFile(".wav", n) : n \in {3, 7, MaxFileSamples}}}

\* for chunk in chunks: the chunk's outcome is the one drawn for its index
LoopFileChunk ==
    /\ pl_i < Len(call.outcomes)
    /\ AnalyzeFileChunk(call.outcomes[pl_i + 1])

\* the streaming session starts when the batch session has returned
LoopStreamAccept ==
    /\ pl_pc = "done"
    /\ StreamAccept

\* a frame arrives
LoopStreamReceive ==
    \E n \in StreamFrameSizes : StreamReceive(n, FALSE)

\* while len(buffer) >= chunk_samples: the chunk's outcome is the one drawn
\* for its index; send_json succeeds
LoopStreamChunk ==
    /\ Len(st_sliced) < Len(call.outcomes)
    /\ StreamChunk(call.outcomes[Len(st_sliced) + 1], "ok")

InitBothLoops ==
    /\ call \in {[fn |-> "loops", done |-> FALSE, outcomes |-> os] :
                     os \in LoopOutcomeInputs}
    /\ InitTemporal
    /\ InitChunker
    /\ InitStream
    /\ InitUpload
    /\ next_uuid = 0
    /\ pl_in \in LoopFileCalls
    /\ fs = {pl_in.file_path}
    /\ pl_pc = "call"
    /\ pl_waveform = << >>
    /\ pl_chunks = << >>
    /\ pl_i = 0
    /\ pl_chunk_results = << >>
    /\ pl_events = << >>
    /\ pl_outcome = EmptyDict
    /\ pl_ret = EmptyDict

NextBothLoops ==
    \/ AnalyzeFileLoad
    \/ LoopFileChunk
    \/ AnalyzeFileReturn
    \/ LoopStreamAccept
    \/ LoopStreamReceive
    \/ LoopStreamChunk

SpecBothLoops == InitBothLoops /\ [][NextBothLoops]_vars

----------------------------------------------------------------------------
(* routes/analyze.py: analyze_upload, get_results *)

\* the most upload sessions
MaxUploads == 2

\* os.path.join(TEMP_DIR, f"{session_id}{ext}")
TempPath(session_id, ext) == [kind |-> "upload", n |-> session_id, ext |-> ext]

\* an UploadFile: its filename, the lower-cased extension of the filename,
\* what the file holds, and whether saving it fails
Upload(f, save) ==
    [filename |-> "clip" \o f.ext, ext |-> f.ext, file |-> f, save |-> save]

\* the uploads: audio of one chunk, an empty audio file, a video, videos
\* ffmpeg fails on or times out on, an undecodable, an oversized and an
\* unsupported file, and an upload that cannot be saved
UploadInputs ==
    {Upload(f, "ok") :
        f \in {AudioFile(".wav", 5), AudioFile(".wav", 0), AudioFile(".mp4", 5),
               [AudioFile(".mp4", 5) EXCEPT !.ffmpeg = "fails"],
               [AudioFile(".mp4", 5) EXCEPT !.ffmpeg = "timeout"],
               [AudioFile(".mp3", 5) EXCEPT !.decodes = FALSE],
               [AudioFile(".wav", 5) EXCEPT !.too_large = TRUE],
               AudioFile(".txt", 5)}}
        \cup {Upload(AudioFile(".wav", 5), "OSError")}

\* raise HTTPException(status_code, ...)
HTTPException(handler, status_code) ==
    [handler |-> handler, status |-> status_code, body |-> EmptyDict]

\* the status of the HTTPException each except clause raises
UploadStatus(raised) ==
    IF raised = "ValueError" THEN 400
    ELSE IF raised = "RuntimeError" THEN 500
    ELSE 500

\* the result without the session id of the upload put in
UploadResult_KeepsPipelineId(result, session_id, filename) ==
    result @@ [filename |-> filename]

\* result["session_id"] = session_id; result["filename"] = file.filename
UploadResult(result, session_id, filename) ==
    [result EXCEPT !.session_id = session_id] @@ [filename |-> filename]

\* the record of an ended session: the id, the response, and the temporary
\* paths created for it
SessionRecord(session_id, response, created) ==
    [session_id |-> session_id, status |-> response.status,
     body |-> response.body, created |-> created]

\* the extension is not supported: HTTPException(400) before anything is created
UploadRejected(file) ==
    /\ up_pc = "idle"
    /\ Len(up_log) < MaxUploads
    /\ file.ext \notin SUPPORTED_ALL
    /\ http' = HTTPException("analyze_upload", 400)
    /\ up_log' = Append(up_log, SessionRecord(NoSession, http', {}))
    /\ UNCHANGED <<results_cache, up_pc, up_file, up_session>>
    /\ UNCHANGED <<call, taVars, ckVars, fs, next_uuid, plVars, stVars>>

\* saving the upload raises: except Exception -> 500; finally: the file
\* that open() created is removed
UploadSaveFails(file) ==
    LET session_id == next_uuid
        temp_path == TempPath(session_id, file.ext)
    IN  /\ up_pc = "idle"
        /\ Len(up_log) < MaxUploads
        /\ file.ext \in SUPPORTED_ALL
        /\ file.save # "ok"
        /\ next_uuid' = next_uuid + 1
        /\ fs' = (fs \cup {temp_path}) \ {temp_path}
        /\ http' = HTTPException("analyze_upload", UploadStatus(file.save))
        /\ up_log' = Append(up_log, SessionRecord(session_id, http', {temp_path}))
        /\ UNCHANGED <<results_cache, up_pc, up_file, up_session>>
        /\ UNCHANGED <<call, taVars, ckVars, plVars, stVars>>

\* session_id, temp_path; the upload is saved; analyze_file(temp_path) is called
UploadSave(file) ==
    LET session_id == next_uuid
        temp_path == TempPath(session_id, file.ext)
    IN  /\ up_pc = "idle"
        /\ Len(up_log) < MaxUploads
        /\ file.ext \in SUPPORTED_ALL
        /\ file.save = "ok"
        /\ next_uuid' = next_uuid + 1
        /\ up_session' = session_id
        /\ up_file' = [filename |-> file.filename, file |-> file.file,
                       temp_path |-> temp_path, fs_before |-> fs]
        /\ fs' = fs \cup {temp_path}
        /\ up_pc' = "analyzing"
        /\ pl_in' = [file_path |-> temp_path, file |-> file.file, exists |-> TRUE,
                     fusion_weights |-> NoWeights]
        /\ pl_pc' = "call"
        /\ UNCHANGED <<pl_waveform, pl_chunks, pl_i, pl_chunk_results, pl_events,
                       pl_outcome, pl_ret>>
        /\ UNCHANGED <<results_cache, up_log, http>>
        /\ UNCHANGED <<call, taVars, ckVars, stVars>>

\* the locals of analyze_file are gone
PipelineLeft ==
    /\ pl_in' = EmptyDict
    /\ pl_pc' = "idle"
    /\ pl_waveform' = << >>
    /\ pl_chunks' = << >>
    /\ pl_i' = 0
    /\ pl_chunk_results' = << >>
    /\ pl_events' = << >>
    /\ pl_outcome' = EmptyDict
    /\ pl_ret' = EmptyDict

\* finally: if os.path.exists(temp_path): os.remove(temp_path); the handler ends
UploadFinally(response) ==
    /\ fs' = fs \ {up_file.temp_path}
    /\ http' = response
    /\ up_log' = Append(up_log,
                        SessionRecord(up_session, response,
                                      (fs \ up_file.fs_before) \cup {up_file.temp_path}))
    /\ up_pc' = "idle"
    /\ up_session' = NoSession
    /\ up_file' = EmptyDict
    /\ PipelineLeft

\* analyze_file returned: the result is cached and returned
UploadReturn ==
    LET result == UploadResult(pl_ret, up_session, up_file.filename)
    IN  /\ up_pc = "analyzing"
        /\ pl_pc = "done"
        /\ results_cache' = results_cache @@ (up_session :> result)
        /\ UploadFinally([handler |-> "analyze_upload", status |-> 200, body |-> result])
        /\ UNCHANGED <<call, taVars, ckVars, next_uuid, stVars>>

\* analyze_file raised: the except clauses
UploadRaises ==
    /\ up_pc = "analyzing"
    /\ pl_pc = "raised"
    /\ UploadFinally(HTTPException("analyze_upload", UploadStatus(pl_ret.raised)))
    /\ UNCHANGED results_cache
    /\ UNCHANGED <<call, taVars, ckVars, next_uuid, stVars>>

\* get_results(session_id)
GetResults(session_id) ==
    /\ up_pc = "idle"
    /\ http' = IF session_id \notin DOMAIN results_cache
               THEN [HTTPException("get_results", 404) EXCEPT !.body = [session_id |-> session_id]]
               ELSE [handler |-> "get_results", status |-> 200,
                     body |-> results_cache[session_id]]
    /\ UNCHANGED <<results_cache, up_pc, up_file, up_session, up_log>>
    /\ UNCHANGED <<call, taVars, ckVars, fs, next_uuid, plVars, stVars>>

InitUploadService ==
    /\ InitCall
    /\ InitTemporal
    /\ InitChunker
    /\ InitService

NextUpload ==
    \/ \E file \in UploadInputs : UploadRejected(file)
    \/ \E file \in UploadInputs : UploadSaveFails(file)
    \/ \E file \in UploadInputs : UploadSave(file)
    \/ AnalyzeFileLoadRaises
    \/ AnalyzeFileLoad
    \/ \E o \in StreamOutcomes : AnalyzeFileChunk(o)
    \/ AnalyzeFileReturn
    \/ UploadReturn
    \/ UploadRaises
    \/ \E session_id \in 0..next_uuid : GetResults(session_id)

SpecUpload == InitUploadService /\ [][NextUpload]_vars

----------------------------------------------------------------------------
(* Properties of the decision engine *)

C1_AnyRule ==
    LET a == call.args
        t == a.temporal
        trend == IF "trend" \in DOMAIN t THEN t.trend ELSE "absent"
        escalation == IF "escalation_score" \in DOMAIN t THEN t.escalation_score ELSE 0
    IN  \/ a.fused_score > 3 * (One \div 10)
        \/ trend = "spike"
        \/ trend = "sustained" /\ a.fused_score > 7 * (One \div 10)
        \/ trend = "rising"
        \/ escalation > 3 * (One \div 10)
        \/ Len(a.acoustic_events) > 0
        \/ a.nlp_threatening

C2_IsViolence(r) == "alert" \in DOMAIN r /\ r.alert = "Violence"
\* an entry without an alert is taken as 'Safe'
C2_IsSafe(r) == "alert" \notin DOMAIN r \/ r.alert = "Safe"

EventTypes ==
    {"gunshot", "explosion", "screaming", "glass_breaking", "physical_violence",
     "violent_sound", "abusive_speech", "aggressive_emotion", "combined"}

\* the documented label of each class name of the inputs
C10_LabelOf(class) ==
    CASE class \in {"Gunshot, gunfire", "Machine gun"} -> "gunshot"
      [] class \in {"Explosion", "Boom"} -> "explosion"
      [] class \in {"Screaming", "Shout"} -> "screaming"
      [] class \in {"Glass", "Shatter"} -> "glass_breaking"
      [] class = "Slap, smack" -> "physical_violence"
      [] OTHER -> "violent_sound"

\* C10: classify_event_type returns the label of the first matching branch:
\* (1) events and acoustic > nlp -> keyword label; (2) speech and nlp >
\* acoustic -> abusive_speech; (3) speech and emotion > 0.6 ->
\* aggressive_emotion; (4) acoustic > 0.3 -> violent_sound; (5) combined.
\* Every input maps to exactly one of the nine event types.
C10_FirstMatchingBranch ==
    Called("classify_event_type") =>
        LET a == call.args
            ev == a.acoustic_events
            b1 == Len(ev) > 0 /\ a.acoustic_score > a.nlp_score
            b2 == a.has_speech /\ a.nlp_score > a.acoustic_score
            b3 == a.has_speech /\ a.emotion_score > 6 * (One \div 10)
            b4 == a.acoustic_score > 3 * (One \div 10)
            first == IF "class" \in DOMAIN ev[1] THEN ev[1].class ELSE "unknown"
        IN  /\ call.ret \in EventTypes
            /\ b1 => call.ret = C10_LabelOf(first)
            /\ ~b1 /\ b2 => call.ret = "abusive_speech"
            /\ ~b1 /\ ~b2 /\ b3 => call.ret = "aggressive_emotion"
            /\ ~b1 /\ ~b2 /\ ~b3 /\ b4 => call.ret = "violent_sound"
            /\ ~b1 /\ ~b2 /\ ~b3 /\ ~b4 => call.ret = "combined"

\* C10 witness: speech with nlp above acoustic and emotion above 0.6: the
\* speech branch wins over the emotion branch
C10_Witness ==
    /\ Called("classify_event_type")
    /\ call.args.has_speech
    /\ call.args.nlp_score > call.args.acoustic_score
    /\ call.args.emotion_score > 6 * (One \div 10)
    /\ call.args.acoustic_score > 3 * (One \div 10)
    /\ Len(call.args.acoustic_events) > 0
    /\ call.ret = "abusive_speech"

\* C21: the decision engine grades alerts in three tiers: determine_chunk_alert
\* returns 'Critical' for fused score 0.9 with a stable trend and escalation
\* 0, 'Warning' for fused score 0.5 with a rising trend and escalation 0.3,
\* 'Safe' for fused score 0.1 with a stable trend; determine_overall_alert
\* over [Safe, Warning, Critical, Safe] returns overall_alert 'Critical'.
C21_ThreeTiers ==
    /\ (/\ Called("determine_chunk_alert")
        /\ call.args.acoustic_events = << >>
        /\ ~call.args.has_speech
        /\ ~call.args.nlp_threatening) =>
          /\ (/\ call.args.fused_score = 9 * (One \div 10)
              /\ call.args.temporal = [trend |-> "stable", escalation_score |-> 0])
                => call.ret.alert = "Critical"
          /\ (/\ call.args.fused_score = 5 * (One \div 10)
              /\ call.args.temporal =
                    [trend |-> "rising", escalation_score |-> 3 * (One \div 10)])
                => call.ret.alert = "Warning"
          /\ (/\ call.args.fused_score = One \div 10
              /\ call.args.temporal = [trend |-> "stable", escalation_score |-> 0])
                => call.ret.alert = "Safe"
    /\ (/\ Called("determine_overall_alert")
        /\ call.args.chunk_results =
              <<[alert |-> "Safe"], [alert |-> "Warning"],
                [alert |-> "Critical"], [alert |-> "Safe"]>>)
          => call.ret.overall_alert = "Critical"

\* which of the seven rules hold for the arguments of the call
C22_Holds ==
    LET a == call.args
        t == a.temporal
        trend == IF "trend" \in DOMAIN t THEN t.trend ELSE "absent"
        escalation == IF "escalation_score" \in DOMAIN t THEN t.escalation_score ELSE 0
    IN  <<a.fused_score > 3 * (One \div 10),
          trend = "spike",
          trend = "sustained" /\ a.fused_score > 7 * (One \div 10),
          trend = "rising",
          escalation > 3 * (One \div 10),
          Len(a.acoustic_events) > 0,
          a.nlp_threatening>>

\* the class names of at most the first three events, separated by ", "
C22_FirstThreeNames ==
    LET ev == call.args.acoustic_events
        name(i) == IF "class" \in DOMAIN ev[i] THEN ev[i].class ELSE "unknown"
    IN  IF Len(ev) = 1 THEN name(1)
        ELSE IF Len(ev) = 2 THEN name(1) \o ", " \o name(2)
        ELSE name(1) \o ", " \o name(2) \o ", " \o name(3)

\* the reason of each rule
C22_Text ==
    LET a == call.args
    IN  <<"Elevated violence score (" \o Fmt2(a.fused_score) \o ")",
          "Sudden spike in violence indicators",
          "Sustained aggression (score: " \o Fmt2(a.fused_score) \o ")",
          "Violence indicators are rising",
          IF C22_Holds[5]
              THEN "Escalation detected (score: " \o Fmt2(a.temporal.escalation_score) \o ")"
              ELSE "Escalation detected",
          IF C22_Holds[6]
              THEN "Violent sounds detected: " \o C22_FirstThreeNames
              ELSE "Violent sounds detected",
          "Threatening language detected in speech">>

\* the positions of the reason of rule k in the returned list
C22_Positions(k) ==
    {i \in 1..Len(call.ret.reasons) : call.ret.reasons[i] = C22_Text[k]}

\* one reason for each rule that holds, none for the others, in rule order
C22_OneReasonPerRule ==
    /\ \A k \in 1..7 :
          Cardinality(C22_Positions(k)) = IF C22_Holds[k] THEN 1 ELSE 0
    /\ Len(call.ret.reasons) = Cardinality({k \in 1..7 : C22_Holds[k]})
    /\ \A j \in 1..7, k \in 1..7 :
          (j < k /\ C22_Holds[j] /\ C22_Holds[k]) =>
              \A p \in C22_Positions(j), q \in C22_Positions(k) : p < q

\* C22 as stated: for every input the reasons list of determine_chunk_alert
\* holds exactly one reason for each of the seven rules whose condition
\* holds and none for the others, in rule order, the acoustic-events reason
\* names at most the first three events, and the explanation is the reasons
\* joined with '; '.
C22_Original_ExplanationAlwaysJoined ==
    Called("determine_chunk_alert") =>
        /\ C22_OneReasonPerRule
        /\ call.ret.explanation = Join(call.ret.reasons, "; ")

\* C22 amended: for every input the reasons list of determine_chunk_alert
\* holds exactly one reason for each of the seven rules whose condition
\* holds and none for the others, in rule order, the acoustic-events reason
\* names at most the first three events, and the explanation is the reasons
\* joined with '; ' when at least one rule holds and the fixed text 'No
\* violence indicators detected' when none does.
C22_AllMatchingRulesGiveReasons ==
    Called("determine_chunk_alert") =>
        /\ C22_OneReasonPerRule
        /\ call.ret.explanation =
              IF call.ret.reasons # << >>
              THEN Join(call.ret.reasons, "; ")
              ELSE "No violence indicators detected"

\* C22 witness: rules 1, 3, 5, 6 and 7 hold together, with four acoustic
\* events of which three are named
C22_Witness ==
    /\ Called("determine_chunk_alert")
    /\ C22_Holds = <<TRUE, FALSE, TRUE, FALSE, TRUE, TRUE, TRUE>>
    /\ Len(call.args.acoustic_events) = 4
    /\ Len(call.ret.reasons) = 5
    /\ call.ret.reasons[4] = "Violent sounds detected: Siren, Glass, Boom"

\* the events of the list with the highest score
C27_TopScoring ==
    LET ev == call.args.acoustic_events
    IN  {i \in 1..Len(ev) : \A j \in 1..Len(ev) : ev[i].score >= ev[j].score}

\* the acoustic branch is taken
C27_AcousticBranch ==
    /\ Called("classify_event_type")
    /\ Len(call.args.acoustic_events) > 0
    /\ call.args.acoustic_score > call.args.nlp_score

\* C27: when classify_event_type takes its acoustic branch, the class name
\* matched against the keyword table is that of the event with the highest
\* score among acoustic_events, for every ordering of the list.
C27_HighestScoringEventMatched ==
    C27_AcousticBranch =>
        \E i \in C27_TopScoring :
            LET e == call.args.acoustic_events[i]
            IN  call.ret = C10_LabelOf(IF "class" \in DOMAIN e THEN e.class ELSE "unknown")

\* what does hold: the highest-scoring event is matched when the list is
\* sorted by score in descending order, as predict_acoustic_violence returns it
C27_HoldsForSortedLists ==
    (/\ C27_AcousticBranch
     /\ call.args.acoustic_events = SortedByScore(call.args.acoustic_events))
        => C27_HighestScoringEventMatched

\* C29: for every list of chunk results given to determine_overall_alert,
\* whatever alert labels the entries carry (entries without an alert count
\* as 'Safe'), total_chunks = violence_chunks + safe_chunks.
C29_CountsAddUp ==
    Called("determine_overall_alert") =>
        call.ret.total_chunks = call.ret.violence_chunks + call.ret.safe_chunks

\* what does hold: the counts add up when every label is 'Safe' or 'Violence'
C29_HoldsForTwoLabels ==
    (/\ Called("determine_overall_alert")
     /\ \A i \in 1..Len(call.args.chunk_results) :
           C2_IsViolence(call.args.chunk_results[i]) \/ C2_IsSafe(call.args.chunk_results[i]))
        => C29_CountsAddUp

----------------------------------------------------------------------------
(* Properties of score fusion *)

\* the weight of key k in the map the call was given (tenths)
C5_Weight(k, default) ==
    LET w == call.args.weights
    IN  IF "none" \in DOMAIN w THEN default
        ELSE IF k \in DOMAIN w THEN w[k] ELSE default

\* the weighted sum of the call's scores, in 1e-6 units
C5_WeightedSum ==
    C5_Weight("w_acoustic", 5) * call.args.acoustic_score
        + C5_Weight("w_nlp", 3) * call.args.nlp_score
        + C5_Weight("w_emotion", 2) * call.args.emotion_score

\* clamp01 of a value in 1e-6 units
C5_Clamp(x) == IF x < 0 THEN 0 ELSE IF x > 10 * One THEN 10 * One ELSE x

\* the value the claim gives the fused score, in 1e-6 units
C5_Expected ==
    IF call.args.has_speech THEN C5_Clamp(C5_WeightedSum)
    ELSE C5_Clamp(10 * call.args.acoustic_score)

C5_Mode == IF call.args.has_speech THEN "full" ELSE "acoustic_only"

\* C5 as stated: fused_score is exactly clamp01 of the weighted sum in 'full'
\* mode and exactly clamp01(acoustic) in 'acoustic_only' mode.
C5_Original_ExactFusedScore ==
    Called("fuse_scores") =>
        /\ call.ret.fusion_mode = C5_Mode
        /\ 10 * call.ret.fused_score = C5_Expected

\* C5 amended: fuse_scores returns fusion_mode 'full' when has_speech and
\* 'acoustic_only' otherwise, and fused_score is clamp01 of the weighted sum
\* (of the acoustic score alone without speech) rounded to 4 decimal places:
\* a multiple of 1e-4 within 0.00005 of it.  Without speech fused_score,
\* fusion_mode and component_scores are fixed by the acoustic score alone.
\* With the default weights, 0.7, 0.8, 0.6 give 0.71.
C5_RoundedFusedScore ==
    Called("fuse_scores") =>
        /\ call.ret.fusion_mode = C5_Mode
        /\ call.ret.fused_score % 10 = 0
        /\ 10 * call.ret.fused_score - C5_Expected \in -50..50
        /\ ~call.args.has_speech =>
            /\ 10 * call.ret.fused_score - C5_Clamp(10 * call.args.acoustic_score) \in -50..50
            /\ call.ret.component_scores.nlp = 0
            /\ call.ret.component_scores.emotion = 0
            /\ call.ret.component_scores.acoustic % 10 = 0
            /\ call.ret.component_scores.acoustic - call.args.acoustic_score \in -5..5
        /\ (/\ call.args.has_speech
            /\ "none" \in DOMAIN call.args.weights
            /\ call.args.acoustic_score = 70000
            /\ call.args.nlp_score = 80000
            /\ call.args.emotion_score = 60000) => call.ret.fused_score = 71000

\* C5 witness: without speech an acoustic score of 0.12346 is returned as
\* 0.1235, under weights that would otherwise change it
C5_Witness ==
    /\ Called("fuse_scores")
    /\ ~call.args.has_speech
    /\ call.args.acoustic_score = 12346
    /\ call.args.nlp_score = 80000
    /\ call.args.weights = [w_acoustic |-> 20]
    /\ call.ret.fused_score = 12350
    /\ call.ret.fusion_mode = "acoustic_only"

\* C6: for every combination of inputs (negative and above 1 included), every
\* weight map and both values of has_speech, fused_score lies in [0, 1].
C6_FusedScoreInUnitInterval ==
    Called("fuse_scores") =>
        call.ret.fused_score >= 0 /\ call.ret.fused_score <= One

\* C6 witness: a weighted sum above 1 (weights of 1.0 each, scores 1.5, 1.2)
\* is returned as 1.0
C6_Witness ==
    /\ Called("fuse_scores")
    /\ call.args.has_speech
    /\ C5_WeightedSum > 10 * One
    /\ call.ret.fused_score = One

----------------------------------------------------------------------------
(* Properties of the temporal analyzer *)

\* a snapshot has been returned since the last reset
HasSnapshot == "trend" \in DOMAIN snapshot

C3_Spike ==
    window[Len(window)] > 85 * (One \div 100) /\ window[Len(window) - 1] < 4 * (One \div 10)
C3_Sustained ==
    Cardinality({i \in 1..Len(window) : window[i] > 5 * (One \div 10)}) >= 3
C3_Rising ==
    /\ Len(window) >= 3
    /\ Cardinality({i \in 1..(Len(window) - 1) : window[i + 1] > window[i]})
          >= Len(window) - 2
    /\ window[Len(window)] - window[1] > 15 * (One \div 100)
C3_Falling ==
    /\ Len(window) >= 3
    /\ window[Len(window)] < window[1] - 2 * (One \div 10)

\* C3: with at least 2 scores in the window (size 5) the snapshot reports
\* exactly one trend label, chosen by the priority spike > sustained > rising
\* > falling > stable among the conditions that hold on the current window;
\* stable only when none holds.
C3_TrendPriority ==
    (HasSnapshot /\ Len(window) >= 2) =>
        /\ snapshot.trend \in TrendLabels
        /\ C3_Spike => snapshot.trend = "spike"
        /\ ~C3_Spike /\ C3_Sustained => snapshot.trend = "sustained"
        /\ ~C3_Spike /\ ~C3_Sustained /\ C3_Rising => snapshot.trend = "rising"
        /\ ~C3_Spike /\ ~C3_Sustained /\ ~C3_Rising /\ C3_Falling
              => snapshot.trend = "falling"
        /\ snapshot.trend = "stable"
              <=> ~(C3_Spike \/ C3_Sustained \/ C3_Rising \/ C3_Falling)

\* C3 witness: rising and sustained hold together on a window that has
\* evicted a score, and the snapshot reports sustained
C3_Witness ==
    /\ HasSnapshot
    /\ Len(inserted) > window_size
    /\ C3_Rising /\ C3_Sustained /\ ~C3_Spike
    /\ snapshot.trend = "sustained"

\* C4: after k add_score calls on a freshly created TemporalAnalyzer the
\* chunk_count of the snapshot equals k, the total number of chunks seen so
\* far, also when k exceeds the capacity of the window and of the history
\* buffer.
C4_ChunkCountIsTotal ==
    HasSnapshot => snapshot.chunk_count = Len(inserted)

\* C23: in every snapshot over a window of at least 2 scores,
\* escalation_score = min(1.0, 0.4 [spike] + 0.3 [rising] + 0.3 [sustained]),
\* counting every condition that holds and not only the one reported as
\* trend; falling contributes 0; with fewer than 2 scores it is 0.
C23_EscalationIsAdditive ==
    HasSnapshot =>
        IF Len(window) >= 2
        THEN snapshot.escalation_score =
                 Min(One,
                     (IF C3_Spike THEN 4 * (One \div 10) ELSE 0)
                         + (IF C3_Rising THEN 3 * (One \div 10) ELSE 0)
                         + (IF C3_Sustained THEN 3 * (One \div 10) ELSE 0))
        ELSE snapshot.escalation_score = 0

\* C23 witness: spike, rising and sustained hold together: the trend is
\* spike and the escalation score 1.0
C23_Witness ==
    /\ HasSnapshot
    /\ Len(window) = 5
    /\ C3_Spike /\ C3_Rising /\ C3_Sustained
    /\ snapshot.trend = "spike"
    /\ snapshot.escalation_score = One

\* a second witness: falling alone holds and contributes nothing
C23_WitnessFalling ==
    /\ HasSnapshot
    /\ Len(window) >= 3
    /\ C3_Falling /\ ~C3_Spike /\ ~C3_Rising /\ ~C3_Sustained
    /\ snapshot.trend = "falling"
    /\ snapshot.escalation_score = 0

\* the last n elements of a sequence
C24_Last(seq, n) == SubSeq(seq, Len(seq) - n + 1, Len(seq))

----------------------------------------------------------------------------
(* Properties of chunk_audio *)

\* the arguments in samples, as the documentation gives them
CK_Total == Len(ck_in.waveform)
CK_ChunkLen == (ck_in.chunk_ds * ck_in.sr) \div 10
CK_Stride == ((ck_in.chunk_ds - ck_in.overlap_ds) * ck_in.sr) \div 10
CK_MinLen == (ck_in.min_ds * ck_in.sr) \div 10

\* the durations are whole numbers of samples at this sample rate
CK_WholeSamples ==
    /\ (ck_in.chunk_ds * ck_in.sr) % 10 = 0
    /\ (ck_in.overlap_ds * ck_in.sr) % 10 = 0

CK_Returned == ck_pc = "done"
CK_Long == CK_Total > CK_ChunkLen

\* chunk c is cut from a window that reaches past the end of the waveform
CK_Padded(c) == c.start + CK_ChunkLen > CK_Total

C8_ShortWaveformOneChunk ==
    (CK_Returned /\ ~CK_Long) =>
        /\ Len(chunks) = 1
        /\ chunks[1].chunk_id = 0
        /\ chunks[1].start_time.num = 0
        /\ chunks[1].end_time.num * ck_in.sr = 1000 * CK_Total * chunks[1].end_time.den
        /\ Len(chunks[1].waveform) = CK_ChunkLen
        /\ \A i \in 1..CK_ChunkLen :
              chunks[1].waveform[i] = IF i <= CK_Total THEN ck_in.waveform[i] ELSE 0

\* C8 witness: three samples at a chunk length of five are returned followed
\* by two zeros
C8_Witness ==
    /\ CK_Returned
    /\ ck_in.waveform = <<1, 2, 3>>
    /\ CK_ChunkLen = 5
    /\ Len(chunks) = 1
    /\ chunks[1].waveform = <<1, 2, 3, 0, 0>>
    /\ chunks[1].end_time = [num |-> 3000, den |-> 2]

\* the offsets k * stride of the windows that start inside the waveform
CK_WindowStarts == {x \in 0..(CK_Total - 1) : x % CK_Stride = 0}

\* C9: for a waveform longer than one chunk and overlap < chunk_duration,
\* every chunk has exactly chunk_samples samples; every window that fits
\* inside the waveform is emitted unpadded; only the final emitted chunk may be
\* zero-padded: the trailing partial window is emitted if its remaining
\* duration is >= min_chunk_duration and discarded otherwise, after which no
\* further chunk is emitted.
C9_OnlyFinalChunkPadded ==
    (CK_Returned /\ CK_Long /\ CK_Stride >= 1) =>
        /\ \A i \in 1..Len(chunks) : Len(chunks[i].waveform) = CK_ChunkLen
        /\ \A x \in CK_WindowStarts :
              x + CK_ChunkLen <= CK_Total =>
                  \E i \in 1..Len(chunks) :
                      /\ chunks[i].start = x
                      /\ chunks[i].waveform = SubSeq(ck_in.waveform, x + 1, x + CK_ChunkLen)
        /\ \A i \in 1..Len(chunks) : CK_Padded(chunks[i]) => i = Len(chunks)
        /\ \A x \in CK_WindowStarts :
              (/\ x + CK_ChunkLen > CK_Total
               /\ x - CK_Stride + CK_ChunkLen <= CK_Total) =>
                  /\ CK_Total - x >= CK_MinLen =>
                        chunks[Len(chunks)].start = x
                  /\ CK_Total - x < CK_MinLen =>
                        \A i \in 1..Len(chunks) : ~CK_Padded(chunks[i])

\* C9 on the parameters where the overlap is at most the minimum duration, as
\* with the defaults (0.5 <= 1.0)
C9_HoldsWhenOverlapWithinMinimum ==
    (CK_ChunkLen - CK_Stride <= CK_MinLen) => C9_OnlyFinalChunkPadded

----------------------------------------------------------------------------
(* Properties of the temporal analyzer: analyze as a read, the prediction
   phrases, the rising and the spike example *)

\* C17: analyze() is a pure read: a call leaves the window and the history
\* buffer unchanged, a call that follows an add_score or another analyze
\* returns the snapshot that call returned, and the snapshot equals the one
\* returned by the most recent add_score.
C17_AnalyzeIsPureRead ==
    [][ta_op' = "analyze" =>
          /\ window' = window
          /\ score_history' = score_history
          /\ ta_op \in {"add_score", "analyze"} => snapshot' = snapshot
          /\ inserted # << >> => snapshot' = ta_added']_vars

\* C17 witness: analyze called on an analyzer whose window has evicted a
\* score returns the sustained snapshot of the last add_score
C17_Witness ==
    /\ ta_op = "analyze"
    /\ Len(inserted) > window_size
    /\ snapshot = ta_added
    /\ snapshot.trend = "sustained"
    /\ snapshot.chunk_count = Len(score_history)

\* the phrase the documentation gives each trend
C18_Phrase(trend) ==
    CASE trend = "spike" -> "sudden violent event detected"
      [] trend = "rising" -> "violence likely to escalate"
      [] trend = "sustained" -> "ongoing violent situation"
      [] trend = "falling" -> "situation de-escalating"
      [] trend = "stable" -> "no escalation detected"
      [] OTHER -> "none"

\* C18 as stated: in every snapshot produced by add_score, analyze or
\* detect_escalation the prediction is the phrase of the trend, so that two
\* snapshots with the same trend carry the same prediction.
C18_Original_PredictionByTrendAlone ==
    /\ HasSnapshot => snapshot.prediction = C18_Phrase(snapshot.trend)
    /\ Called("detect_escalation") => call.ret.prediction = C18_Phrase(call.ret.trend)

\* C18 amended: a snapshot over at least 2 scores carries the phrase of its
\* trend (spike, rising, sustained, falling, stable as documented); a
\* snapshot over fewer than 2 scores has trend 'stable' and the prediction
\* 'insufficient data', and detect_escalation of an empty list returns
\* 'stable' with 'no data'.
C18_PredictionByTrendGivenTwoScores ==
    /\ HasSnapshot =>
          /\ Len(window) >= 2 => snapshot.prediction = C18_Phrase(snapshot.trend)
          /\ Len(window) < 2 =>
                snapshot.trend = "stable" /\ snapshot.prediction = "insufficient data"
    /\ Called("detect_escalation") =>
          /\ call.ret.trend \in TrendLabels
          /\ Len(call.args.scores) >= 2 =>
                call.ret.prediction = C18_Phrase(call.ret.trend)
          /\ Len(call.args.scores) = 1 =>
                call.ret.trend = "stable" /\ call.ret.prediction = "insufficient data"
          /\ Len(call.args.scores) = 0 =>
                call.ret.trend = "stable" /\ call.ret.prediction = "no data"

\* C18 witness: detect_escalation of a falling list returns 'falling' with
\* its phrase
C18_Witness ==
    /\ Called("detect_escalation")
    /\ Len(call.args.scores) = 3
    /\ call.ret.trend = "falling"
    /\ call.ret.prediction = "situation de-escalating"

\* the last five scores inserted
C19_LastFive == SubSeq(inserted, Len(inserted) - 4, Len(inserted))

\* C19: whenever the last five scores inserted (window 5) are strictly
\* increasing with last - first > 0.15, no spike condition holds and fewer
\* than three of them exceed 0.5, the snapshot returned by that insertion
\* has trend 'rising' and escalation_score 0.3, whatever was inserted
\* before; feeding 0.1, 0.2, 0.35, 0.5, 0.65, 0.8 into a fresh analyzer ends
\* with 'rising'.
C19_RisingOnFinalInsertion ==
    /\ (ta_op = "add_score" /\ window_size = 5 /\ Len(inserted) >= 5) =>
          LET last == C19_LastFive
          IN  (/\ \A i \in 1..4 : last[i] < last[i + 1]
               /\ last[5] - last[1] > 15 * (One \div 100)
               /\ ~(last[5] > 85 * (One \div 100) /\ last[4] < 4 * (One \div 10))
               /\ Cardinality({i \in 1..5 : last[i] > 5 * (One \div 10)}) < 3)
                  => /\ snapshot.trend = "rising"
                     /\ snapshot.escalation_score = 3 * (One \div 10)
    /\ (ta_op = "add_score"
            /\ inserted = <<10000, 20000, 35000, 50000, 65000, 80000>>)
          => snapshot.trend = "rising"

\* C19 witness: the six scores of the example have been inserted and the
\* last snapshot is rising with escalation 0.3 over the last five
C19_Witness ==
    /\ ta_op = "add_score"
    /\ inserted = <<10000, 20000, 35000, 50000, 65000, 80000>>
    /\ window = <<20000, 35000, 50000, 65000, 80000>>
    /\ snapshot.trend = "rising"
    /\ snapshot.escalation_score = 30000

\* C20: whenever a score > 0.85 is inserted immediately after a score < 0.4,
\* whatever the earlier history, the snapshot returned by that insertion has
\* trend 'spike' and escalation_score >= 0.4.
C20_SpikeAfterLowScore ==
    (/\ ta_op = "add_score"
     /\ Len(inserted) >= 2
     /\ inserted[Len(inserted)] > 85 * (One \div 100)
     /\ inserted[Len(inserted) - 1] < 4 * (One \div 10)) =>
        /\ snapshot.trend = "spike"
        /\ snapshot.escalation_score >= 4 * (One \div 10)

\* C20 witness: 0.9 inserted after 0.1 at the end of a history of high
\* scores that the window still holds: spike, with escalation 0.7
C20_Witness ==
    /\ ta_op = "add_score"
    /\ Len(inserted) > window_size
    /\ inserted[Len(inserted)] = 90000
    /\ inserted[Len(inserted) - 1] = 10000
    /\ inserted[1] = 90000
    /\ snapshot.trend = "spike"
    /\ snapshot.escalation_score = 70000

\* C28: the trend, escalation_score and prediction of a snapshot depend only
\* on the scores in the window: an analyzer (window size 5) that has received
\* at least 5 scores returns the same trend, escalation_score, prediction and
\* window_scores as a fresh analyzer given its 5 most recent scores only,
\* whatever its earlier history was; so any two analyzers with the same 5
\* most recent scores agree.
C28_WindowDeterminesSnapshot ==
    (HasSnapshot /\ window_size = 5 /\ Len(inserted) >= 5) =>
        LET other == detect_escalation(C19_LastFive)
        IN  /\ snapshot.trend = other.trend
            /\ snapshot.escalation_score = other.escalation_score
            /\ snapshot.prediction = other.prediction
            /\ snapshot.window_scores = other.window_scores

\* C28 witness: an analyzer whose sixth score evicted a 0.9 from the window:
\* all six scores together are sustained, the five in the window are not,
\* and the snapshot (chunk_count 6) follows the window
C28_Witness ==
    /\ HasSnapshot
    /\ Len(inserted) = 6
    /\ inserted[1] = 9 * (One \div 10)
    /\ snapshot.chunk_count = 6
    /\ detect_escalation(C19_LastFive).chunk_count = 5
    /\ snapshot.trend = "rising"
    /\ detect_escalation(inserted).trend = "rising"
    /\ IsSustained(inserted)
    /\ ~IsSustained(window)

----------------------------------------------------------------------------
(* Properties of analyze_file and process_chunk *)

\* analyze_file has returned its dict
PL_Completed == pl_pc = "done"

\* the records of the chunks whose alert is not 'Safe', in chunk order
C11_NonSafe == SelectSeq(pl_ret.chunks, LAMBDA c : c.alert # "Safe")

\* C11: after analyze_file completes, the events list holds exactly one
\* event for each chunk whose alert is not 'Safe' and none for a Safe chunk,
\* in increasing chunk order, each with that chunk's start, end, alert and
\* explanation; so the number of events equals statistics.violence_chunks
\* and violence_detected is true iff the events list is non-empty.
C11_OneEventPerNonSafeChunk ==
    PL_Completed =>
        /\ Len(pl_ret.chunks) = Len(pl_chunks)
        /\ \A i \in 1..Len(pl_ret.chunks) : pl_ret.chunks[i].chunk_id = i - 1
        /\ Len(pl_ret.events) = Len(C11_NonSafe)
        /\ \A k \in 1..Len(pl_ret.events) :
              /\ pl_ret.events[k].start = C11_NonSafe[k].start
              /\ pl_ret.events[k].end = C11_NonSafe[k].end
              /\ pl_ret.events[k].alert = C11_NonSafe[k].alert
              /\ pl_ret.events[k].explanation = C11_NonSafe[k].explanation
              /\ pl_ret.events[k].alert # "Safe"
              /\ k > 1 => pl_ret.events[k].start.num > pl_ret.events[k - 1].start.num
        /\ Len(pl_ret.events) = pl_ret.statistics.violence_chunks
        /\ pl_ret.violence_detected <=> pl_ret.events # << >>

\* C11 witness: three chunks decided Violence, Safe, Violence: two events,
\* for the chunks starting at 0 s and at 4 s
C11_Witness ==
    /\ PL_Completed
    /\ Len(pl_ret.chunks) = 3
    /\ pl_ret.chunks[1].alert = "Violence"
    /\ pl_ret.chunks[2].alert = "Safe"
    /\ pl_ret.chunks[3].alert = "Violence"
    /\ Len(pl_ret.events) = 2
    /\ pl_ret.events[1].start = [num |-> 0, den |-> 1]
    /\ pl_ret.events[2].start = [num |-> 4000, den |-> 1]
    /\ pl_ret.statistics = [violence_chunks |-> 2, safe_chunks |-> 1]

\* the result of the chunk processed last
PL_LastResult == pl_chunk_results[pl_i]

\* no failure of a collaborator aborts the session: analyze_file raises only
\* where load_audio does, process_chunk has returned a result for every
\* chunk taken, and the returned dict has a record for every chunk
C12_NotAborted ==
    /\ pl_pc = "raised" => pl_i = 0 /\ pl_outcome = EmptyDict
    /\ pl_pc \in {"loop", "done"} => Len(pl_chunk_results) = pl_i
    /\ PL_Completed =>
          /\ pl_i = Len(pl_chunks)
          /\ Len(pl_ret.chunks) = Len(pl_chunks)
          /\ pl_ret.total_chunks = Len(pl_chunks)

\* a failed modality contributes score 0, no events, not threatening
C12_FailedContributesZero ==
    (pl_pc \in {"loop", "done"} /\ pl_i >= 1) =>
        /\ "acoustic" \in pl_outcome.failed =>
              /\ PL_LastResult.acoustic_violence_score = 0
              /\ PL_LastResult.acoustic_events = << >>
        /\ "transcriber" \in pl_outcome.failed =>
              /\ PL_LastResult.transcript = ""
              /\ PL_LastResult.nlp_threat_score = 0
              /\ ~PL_LastResult.is_threatening
        /\ "nlp" \in pl_outcome.failed =>
              /\ PL_LastResult.nlp_threat_score = 0
              /\ ~PL_LastResult.is_threatening
        /\ "emotion" \in pl_outcome.failed =>
              PL_LastResult.emotion_violence_score = 0

\* the speech-activity detector failed on the chunk processed last
C12_VadFailed ==
    pl_pc \in {"loop", "done"} /\ pl_i >= 1 /\ "vad" \in pl_outcome.failed

\* C12 as stated: whatever collaborators fail, the session is not aborted,
\* a failed modality contributes score 0, and a failed speech-activity
\* detector yields has_speech = true so that the speech-dependent
\* collaborators (transcriber, linguistic, emotion) are still invoked and
\* fusion runs in 'full' mode.
C12_Original_AllSpeechCollaboratorsInvoked ==
    /\ C12_NotAborted
    /\ C12_FailedContributesZero
    /\ C12_VadFailed =>
          /\ PL_LastResult.has_speech
          /\ PL_LastResult.fusion_mode = "full"
          /\ {"transcriber", "nlp", "emotion"} \subseteq pl_outcome.invoked

\* C12 amended: whatever collaborators fail, the session is not aborted:
\* process_chunk returns a result for every chunk and analyze_file reports a
\* record for every chunk; a failed modality contributes score 0 (no events,
\* not threatening); a failed speech-activity detector yields has_speech =
\* true, so the transcriber and the emotion detector are still invoked, the
\* linguistic classifier exactly when the transcript is not empty, and
\* fusion runs in 'full' mode.
C12_FailuresDoNotAbort ==
    /\ C12_NotAborted
    /\ C12_FailedContributesZero
    /\ C12_VadFailed =>
          /\ PL_LastResult.has_speech
          /\ PL_LastResult.fusion_mode = "full"
          /\ {"transcriber", "emotion"} \subseteq pl_outcome.invoked
          /\ "nlp" \in pl_outcome.invoked <=> PL_LastResult.transcript # ""

\* C12 witness: a file of two chunks analysed to the end, the detector, the
\* acoustic, the linguistic and the emotion collaborator failing on the last
\* chunk: a transcript, every score 0, fusion in 'full' mode
C12_Witness ==
    /\ PL_Completed
    /\ Len(pl_ret.chunks) = 2
    /\ pl_outcome.failed = {"vad", "acoustic", "nlp", "emotion"}
    /\ pl_outcome.invoked = {"vad", "acoustic", "transcriber", "nlp", "emotion"}
    /\ PL_LastResult.has_speech
    /\ PL_LastResult.transcript # ""
    /\ PL_LastResult.fused_score = 0
    /\ PL_LastResult.fusion_mode = "full"

----------------------------------------------------------------------------
(* Properties of analyze_stream *)

\* the k-th chunk of the samples the client sent, as the server holds them
ST_Slice(k) ==
    [i \in 1..chunk_samples |->
        IntTrunc(Pcm((k - 1) * chunk_samples + i) * One, 32768)]

\* C13: in a streaming session exactly one message is sent per completed
\* chunk, the messages carry chunk_id 0, 1, 2, ... without gap or repeat in
\* the order the chunks were sliced, and every chunk that can be formed from
\* the frames received so far is processed and its message sent before the
\* server reads the next frame.
C13_OneMessagePerChunkInOrder ==
    /\ Len(st_sent) = st_chunk_id
    /\ \A k \in 1..Len(st_sent) : st_sent[k].chunk_id = k - 1
    /\ \A k \in 1..Len(st_sliced) : st_sliced[k] = ST_Slice(k)
    /\ st_pc \in {"receive", "process"} => Len(st_sliced) = Len(st_sent)
    /\ st_pc \in {"disconnected", "error"} =>
          Len(st_sliced) \in {Len(st_sent), Len(st_sent) + 1}
    /\ st_pc = "receive" =>
          /\ Len(st_buffer) < chunk_samples
          /\ Len(st_sent) = st_received \div chunk_samples

\* C13 witness: sixteen samples received; the server is back at
\* receive_bytes with three messages sent and one sample left
C13_Witness ==
    /\ st_pc = "receive"
    /\ st_received = 16
    /\ Len(st_sent) = 3
    /\ st_sent[3].chunk_id = 2
    /\ Len(st_buffer) = 1

\* the samples of every frame converted so far, in arrival order, as
\* load_audio_from_bytes returned them
C25_Received ==
    [i \in 1..st_received |-> IntTrunc(Pcm(i) * One, 32768)]

\* the concatenation of a sequence of chunks
RECURSIVE C25_Concat(_)
C25_Concat(seqs) ==
    IF seqs = << >> THEN << >>
    ELSE C25_Concat(SubSeq(seqs, 1, Len(seqs) - 1)) \o seqs[Len(seqs)]

\* C25: in a streaming session, after each received frame has been handled
\* (the server is back at receive_bytes) the buffer holds fewer than one
\* chunk of samples, and in every state the chunks sliced so far, each of
\* exactly one chunk's length, followed by the buffer are the samples of
\* all frames received so far: every sample is in at most one chunk, in
\* arrival order, with no overlap and no gap between chunks.
C25_BufferConservation ==
    /\ st_pc = "receive" => Len(st_buffer) < chunk_samples
    /\ \A k \in 1..Len(st_sliced) : Len(st_sliced[k]) = chunk_samples
    /\ C25_Concat(st_sliced) \o st_buffer = C25_Received
    /\ Len(st_sliced) * chunk_samples + Len(st_buffer) = st_received

\* C25 witness: a frame of 2 and a frame of 11 samples handled: two chunks
\* were sliced out of the second frame's arrival, the first of them made of
\* samples of both frames, and three samples wait in the buffer
C25_Witness ==
    /\ st_pc = "receive"
    /\ st_received = 13
    /\ Len(st_sliced) = 2
    /\ st_sliced[1][3] = IntTrunc(Pcm(3) * One, 32768)
    /\ Len(st_buffer) = 3
    /\ st_buffer[1] = IntTrunc(Pcm(11) * One, 32768)
    /\ Len(st_sent) = 2

\* close(code = 1011) is called once, and only where the session ended by
\* an exception other than the disconnect
C14_CloseCodes ==
    /\ st_pc = "disconnected" => st_close = << >>
    /\ st_pc = "error" => st_close = <<1011>>
    /\ st_pc \in {"idle", "receive", "process"} => st_close = << >>

\* once the session has ended nothing is sliced, sent or closed again
C14_NothingAfterTheEnd ==
    [][(st_pc = "disconnected" \/ st_pc = "error") =>
          UNCHANGED <<st_pc, st_sent, st_sliced, st_chunk_id, st_close>>]_vars

\* C14: a streaming session ended by a client disconnect is not closed with
\* code 1011; one ended by any other exception raised while receiving or
\* processing is closed with code 1011, and then no further chunk is
\* processed and no further message sent.
C14_DisconnectIsNotAnError == []C14_CloseCodes /\ C14_NothingAfterTheEnd

\* C14 witness: send_json failed on the second chunk of an eleven-sample
\* frame: closed with 1011, one message sent, a whole chunk left unprocessed
C14_Witness ==
    /\ st_pc = "error"
    /\ st_close = <<1011>>
    /\ Len(st_sent) = 1
    /\ Len(st_sliced) = 2
    /\ Len(st_buffer) >= chunk_samples

\* a session ended by a disconnect while a chunk was being sent
C14_WitnessDisconnect ==
    /\ st_pc = "disconnected"
    /\ st_close = << >>
    /\ Len(st_sliced) = Len(st_sent) + 1

----------------------------------------------------------------------------
(* Properties of chunk_audio within a batch session *)

\* chunk_audio returned at least one chunk; a batch session that chunked its
\* waveform has at least one chunk, and when it returns it has processed
\* every chunk and inserted one score for each
C30_AtLeastOneChunk ==
    /\ ck_pc = "done" =>
          /\ Len(chunks) >= 1
          /\ chunks = chunk_audio(ck_in)
    /\ pl_pc \in {"loop", "done"} => Len(pl_chunks) >= 1
    /\ pl_pc = "done" =>
          /\ Len(pl_chunk_results) = Len(pl_chunks)
          /\ Len(inserted) = Len(pl_chunks)
          /\ Len(inserted) >= 1

C30_WitnessStrideOne ==
    /\ ck_pc = "done"
    /\ StrideSamples(ck_in) = 1
    /\ Len(ck_in.waveform) = MaxSamples
    /\ Len(chunks) >= 10

\* a third witness: a batch session over one sample of audio returned with
\* one chunk and one score
C30_WitnessBatch ==
    /\ pl_pc = "done"
    /\ Len(pl_waveform) = 1
    /\ Len(pl_chunks) = 1
    /\ Len(inserted) = 1

----------------------------------------------------------------------------
(* Properties of the two loops *)

\* process_chunk's result for chunk j in the batch and in the streaming
\* session
C26_BatchResult(j) ==
    process_chunk(<< >>, TARGET_SR, pl_in.fusion_weights, call.outcomes[j])

C26_StreamResult(j) ==
    process_chunk(<< >>, TARGET_SR, NoWeights, call.outcomes[j])

\* the chunks both sessions have decided
C26_Both == 1..Min(Len(pl_chunk_results), Len(st_sent))

\* the decision fields of chunk k agree
C26_SameDecision(k) ==
    /\ pl_chunk_results[k].alert = st_sent[k].alert
    /\ pl_chunk_results[k].explanation = st_sent[k].explanation
    /\ pl_chunk_results[k].temporal.trend = st_sent[k].temporal.trend
    /\ pl_chunk_results[k].temporal.escalation_score = st_sent[k].temporal.escalation_score
    /\ pl_chunk_results[k].temporal.prediction = st_sent[k].temporal.prediction

\* C26: given the same sequence of process_chunk results, the loop of
\* analyze_file and the loop of analyze_stream give, for every chunk index,
\* the same alert, the same explanation and the same temporal trend,
\* escalation_score and prediction.
C26_LoopsAgree ==
    \A k \in C26_Both :
        (\A j \in 1..k : C26_BatchResult(j) = C26_StreamResult(j)) =>
            C26_SameDecision(k)

\* C26 witness: three chunks decided by both sessions on the same results:
\* the first Safe, the third a spike with alert Violence, in both
C26_Witness ==
    /\ Len(pl_chunk_results) = 3
    /\ Len(st_sent) = 3
    /\ \A j \in 1..3 : C26_BatchResult(j) = C26_StreamResult(j)
    /\ st_sent[1].alert = "Safe"
    /\ st_sent[2].temporal.trend = "stable"
    /\ st_sent[3].temporal.trend = "spike"
    /\ st_sent[3].alert = "Violence"
    /\ pl_chunk_results[3].alert = "Violence"

\* where the results differ (the batch session fused with custom weights)
\* the decisions may differ
C26_WitnessOtherResults ==
    /\ Len(pl_chunk_results) = 1
    /\ Len(st_sent) = 1
    /\ C26_BatchResult(1) # C26_StreamResult(1)
    /\ ~C26_SameDecision(1)

----------------------------------------------------------------------------
(* Properties of analyze_upload and get_results *)

\* C15: when a batch upload session has ended, by success, by the rejection
\* of its input or by an exception during the analysis, no temporary
\* resource created for it remains: neither the saved upload file nor a
\* temporary directory or extracted audio file created while loading a video.
C15_NoTemporaryResourceRemains ==
    \A i \in 1..Len(up_log) : up_log[i].created \cap fs = {}

\* what does hold: the saved upload file of an ended session is removed
C15_UploadFileRemoved ==
    \A i \in 1..Len(up_log) :
        \A q \in up_log[i].created \cap fs : q.kind # "upload"

\* the sessions that ended with a result
UP_Completed == {i \in 1..Len(up_log) : up_log[i].status = 200}

\* one cache entry per completed session, under the id its result carries,
\* and none for any other session
C16_CacheMatchesSessions ==
    /\ \A i \in UP_Completed :
          /\ up_log[i].body.session_id = up_log[i].session_id
          /\ up_log[i].session_id \in DOMAIN results_cache
          /\ results_cache[up_log[i].session_id] = up_log[i].body
          /\ \A j \in UP_Completed : up_log[j].session_id = up_log[i].session_id => j = i
    /\ \A k \in DOMAIN results_cache :
          \E i \in UP_Completed : up_log[i].session_id = k
    /\ Cardinality(DOMAIN results_cache) = Cardinality(UP_Completed)

\* an entry is never overwritten or removed; a session that ends writes one
\* entry if it completed and none otherwise; nothing else writes
C16_WrittenOnce ==
    [][/\ \A k \in DOMAIN results_cache :
            k \in DOMAIN results_cache' /\ results_cache'[k] = results_cache[k]
       /\ Cardinality(DOMAIN results_cache') =
            Cardinality(DOMAIN results_cache)
                + (IF Len(up_log') > Len(up_log) /\ up_log'[Len(up_log')].status = 200
                   THEN 1 ELSE 0)]_vars

\* get_results returns the stored result, or 404 for an id not cached
C16_GetResults ==
    [][(http' # http /\ http'.handler = "get_results") =>
          /\ results_cache' = results_cache
          /\ IF http'.status = 200
             THEN \E k \in DOMAIN results_cache : http'.body = results_cache[k]
             ELSE /\ http'.status = 404
                  /\ http'.body.session_id \notin DOMAIN results_cache]_vars

\* C16: across any interleaving of upload sessions and retrievals the cache
\* receives exactly one write per successfully completed session, under the
\* session id carried in the result returned to the client; a failed or
\* rejected session writes nothing; an entry is never overwritten or
\* removed; get_results returns the stored result for a cached id and a 404
\* error for any other id.
C16_OneWritePerCompletedSession ==
    []C16_CacheMatchesSessions /\ C16_WrittenOnce /\ C16_GetResults

\* C16 witness: a completed and a failed session have ended, the cache holds
\* the result of the first under its id, and get_results has just returned it
C16_Witness ==
    /\ Len(up_log) = 2
    /\ up_log[1].status = 200
    /\ up_log[2].status = 500
    /\ DOMAIN results_cache = {up_log[1].session_id}
    /\ http = [handler |-> "get_results", status |-> 200, body |-> up_log[1].body]

\* get_results has answered 404 for the id of a failed session
C16_WitnessNotFound ==
    /\ Len(up_log) >= 1
    /\ up_log[1].status = 500
    /\ http.handler = "get_results"
    /\ http.status = 404
    /\ http.body.session_id = up_log[1].session_id

====
